---- MODULE Spec2Model ----
(***************************************************************************)
(* RESPAWN: checkpoint storage, checkpoint manager, application launcher   *)
(* and system-state detector, modelled from the Go sources.                *)
(*                                                                         *)
(* Time is counted in ticks of five minutes in the detector and in        *)
(* (day, second-of-day) pairs in the checkpoint manager.  File names are   *)
(* records [pre, id, suf]: the text before the identifier, the identifier  *)
(* and the text after it, so that fmt.Sprint and fmt.Sprintf give          *)
(* different names.                                                        *)
(***************************************************************************)
EXTENDS Integers, Sequences, FiniteSets, TLC

(***************************************************************************)
(* Bounds of the model.                                                    *)
(***************************************************************************)
MaxSnapApps == 1    \* monitored applications seen by CreateCheckpoint
MaxSnapMem == 1     \* largest MemoryMB a snapshot reports
MaxDay == 1         \* days of the calendar, 0..MaxDay
MaxSec == 1         \* seconds of a day, 0..MaxSec
MaxCreates == 2     \* CreateCheckpoint calls in one behaviour
MaxApps == 3        \* applications in a checkpoint that is restored
MaxMem == 1         \* largest MemoryMB in a checkpoint that is restored
MaxRetries == 3     \* largest configured MaxRetryAttempts
MaxTicks == 62      \* longest uptime and heartbeat gap, in ticks of five minutes
MaxNow == 4         \* last instant of the crash tracker's clock, in half hours
MaxRecords == 4     \* RecordCrash calls in one behaviour
MaxCompress == 2    \* CompressCheckpoint calls in succession on one object
MaxDamage == 2      \* damaged files, lost metadata and compressed files in a listed directory
MaxTries == 2       \* launchApplication calls tried on their own
MaxUsed == 4        \* applications in AppUsageFrequency
MaxCount == 2       \* largest usage count of an application
MaxHour == 1        \* hours of the day, 0..MaxHour
MaxCpu == 1         \* largest CPU usage reading
MaxBeats == 2       \* updateHeartbeat calls in one behaviour
MaxPolicyRetries == 3 \* largest MaxRetries and CurrentRetry of a restart policy
MaxIntervals == 2   \* longest BackoffIntervals
MaxPause == 2       \* longest pause, seconds
MaxInit == 10       \* longest initialization, seconds

(***************************************************************************)
(* Durations of the detector, in ticks of five minutes.                    *)
(***************************************************************************)
FiveMinutes == 1        \* 5*time.Minute
TwoHours == 24          \* 2*time.Hour
PlaceholderUptime == 24 \* the 2 * time.Hour getSystemUptime returns

(***************************************************************************)
(* Settings of the crash tracker; its clock counts half hours.             *)
(***************************************************************************)
maxCrashes == 3         \* maxCrashes: 3
windowPeriod == 2       \* windowPeriod: 1 * time.Hour

(***************************************************************************)
(* Data model: types.go / part_003                                         *)
(***************************************************************************)
AppNamesAll == <<"Chrome", "Code", "Slack", "Notes", "Mail">>

\* types.ProcessInfo: the fields the checkpoint and the launcher read.
ProcessInfo(name, mem) == [Name |-> name, MemoryMB |-> mem]

\* time.Time values of the model, ordered by (day, sec).
Times == [day : 0..MaxDay, sec : 0..MaxSec]

TimeBefore(a, b) == a.day < b.day \/ (a.day = b.day /\ a.sec < b.sec)

ZeroTime == [day |-> -1, sec |-> -1]

\* timestamp.Format("2006-01-15_15-04-05"): the layout has year, month and
\* the hour twice, minute and second, and no day-of-month field; within one
\* month the identifier is the time of day alone.
FormatID(t) == t.sec

IDs == {FormatID(t) : t \in Times}

NoID == -1

\* fmt.Sprintf("%s.bin", id)
BinName(id) == [pre |-> "", id |-> id, suf |-> ".bin"]

\* fmt.Sprintf("%s_compressed.bin", id)
CompressedName(id) == [pre |-> "", id |-> id, suf |-> "_compressed.bin"]

\* fmt.Sprint("%s.bin", id): Sprint does not interpret verbs, it concatenates
\* its operands (no space is added between two strings).
SprintName(id) == [pre |-> "%s.bin", id |-> id, suf |-> ""]

EmptyPath == [pre |-> "", id |-> NoID, suf |-> ""]

\* strings.HasSuffix(name, ".bin"); identifiers are digits, '-' and '_'.
HasSuffixBin(name) == name.suf \in {".bin", "_compressed.bin"}

\* part_003 Checkpoint
Checkpoint(id, ts, procs, names, isc, path, size) ==
    [ID |-> id, Timestamp |-> ts, Processes |-> procs, AppNames |-> names,
     IsCompressed |-> isc, FilePath |-> path, FileSize |-> size]

NilCheckpoint == Checkpoint(NoID, ZeroTime, <<>>, <<>>, FALSE, EmptyPath, 0)

(***************************************************************************)
(* Process snapshot source: part_004                                       *)
(***************************************************************************)
\* DetectRunningProcesses: walks the enabled applications in configuration
\* order and appends those found running, each with the resident memory ps
\* reports (rssKB / 1024, which may be 0).
RECURSIVE DetectRunningProcesses(_, _)
DetectRunningProcesses(n, maxMem) ==
    IF n = 0 THEN {<<>>}
    ELSE LET prev == DetectRunningProcesses(n - 1, maxMem)
         IN  prev \cup {Append(s, ProcessInfo(AppNamesAll[n], m)) :
                            s \in prev, m \in 0..maxMem}

Snapshots == DetectRunningProcesses(MaxSnapApps, MaxSnapMem)

\* appNames[i] = proc.Name
NamesOf(procs) == [i \in 1..Len(procs) |-> procs[i].Name]

(***************************************************************************)
(* Storage: storage.go                                                     *)
(***************************************************************************)
\* Bytes of a file: the checkpoint they encode, the damage done to them
\* after they were written, their encoding ("json", "zstd" for one zstd frame
\* around the JSON text, "zstd2" for a frame around a frame) and the damage
\* the bytes inside the frame had when they were compressed.
Bytes(cp, damage, enc) == [cp |-> cp, damage |-> damage, enc |-> enc, inner |-> "none"]

\* A file of length zero (os.Create followed by a failed Write).
EmptyBytes == Bytes(NilCheckpoint, "empty", "json")

\* len(data): the JSON text grows with the number of processes; a zstd frame
\* is never empty.
SizeOf(b) ==
    IF b.enc # "json" THEN 1 + Len(b.cp.Processes)
    ELSE IF b.damage = "empty" THEN 0
    ELSE 2 + Len(b.cp.Processes)

\* serializeCheckpoint: json.Marshal of the checkpoint, all seven fields.
serializeCheckpoint(cp) == Bytes(cp, "none", "json")

\* One byte of the JSON text changed: either the text no longer parses, or a
\* digit changed and the text parses to another value ("file_size":0 -> 1).
AlteredValue(cp) == [cp EXCEPT !.FileSize = 1 - cp.FileSize]

\* deserializeCheckpoint: json.Unmarshal; [err, cp].
deserializeCheckpoint(b) ==
    IF b.enc # "json" \/ b.damage \in {"syntax", "empty"}
    THEN [err |-> "deserialize", cp |-> NilCheckpoint]
    ELSE IF b.damage = "value"
    THEN [err |-> "none", cp |-> AlteredValue(b.cp)]
    ELSE [err |-> "none", cp |-> b.cp]

\* calculateChecksum: SHA-256 of the bytes, taken as collision free: equal
\* digests exactly for equal bytes.
calculateChecksum(b) == <<"sha256", b>>

\* compressor.EncodeAll: one zstd frame around the bytes given, whatever
\* they are.
EncodeAll(b) ==
    IF b.enc = "json"
    THEN [cp |-> b.cp, damage |-> "none", enc |-> "zstd", inner |-> b.damage]
    ELSE [cp |-> b.cp, damage |-> "none", enc |-> "zstd2",
          inner |-> IF b.damage = "none" THEN b.inner ELSE "syntax"]

\* One zstd frame taken off: [err, data]; fails on bytes that are no frame.
DecodeFrame(b) ==
    IF b.enc = "json" \/ b.damage # "none"
    THEN [err |-> "decompress", data |-> EmptyBytes]
    ELSE IF b.enc = "zstd"
    THEN [err |-> "none",
          data |-> [cp |-> b.cp, damage |-> b.inner, enc |-> "json", inner |-> "none"]]
    ELSE [err |-> "none",
          data |-> [cp |-> b.cp, damage |-> "none", enc |-> "zstd", inner |-> b.inner]]

\* decompressor.DecodeAll(input, dst): decodes the frames of input and
\* appends the output to dst; [err, data].  An input without bytes holds no
\* frame, and dst comes back as it was given.
DecodeAll(input, dst) ==
    IF input = EmptyBytes THEN [err |-> "none", data |-> dst]
    ELSE LET out == DecodeFrame(input)
         IN  IF out.err # "none" THEN out
             ELSE IF dst = EmptyBytes THEN out
             ELSE [err |-> "none", data |-> [dst EXCEPT !.damage = "syntax"]]

\* os.WriteFile / os.Create + Write: whole-file create or replace.
WriteFile(d, name, b) ==
    [n \in DOMAIN d \cup {name} |-> IF n = name THEN b ELSE d[n]]

\* os.Remove of a file that exists.
RemoveFile(d, name) == [n \in DOMAIN d \ {name} |-> d[n]]

\* getCheckpointPath: the compressed variant when it exists.
getCheckpointPath(d, id) ==
    IF CompressedName(id) \in DOMAIN d THEN CompressedName(id) ELSE BinName(id)

\* CheckpointMetadata written by SaveCheckpoint.
Metadata(cp, size, sum) ==
    [ID |-> cp.ID, Timestamp |-> cp.Timestamp, IsCompressed |-> FALSE,
     OriginalSize |-> size, CompressedSize |-> 0, Checksum |-> sum,
     AppCount |-> Len(cp.Processes), AppNames |-> cp.AppNames]

\* The name SaveCheckpoint gives the data file: fmt.Sprint("%s.bin", ID).
SaveFileName(id) == SprintName(id)

\* Outcomes of the file system calls of SaveCheckpoint.
SaveFaults == {"ok", "createFail", "writeFail", "metaFail"}

\* SaveCheckpoint: [disk, meta, path, size, err].
SaveCheckpoint(d, m, cp, io) ==
    LET filePath == SaveFileName(cp.ID)
        data == serializeCheckpoint(cp)
        bytesWritten == SizeOf(data)
        checksum == calculateChecksum(data)
        metadata == Metadata(cp, bytesWritten, checksum)
    IN  IF io = "createFail"
        THEN [disk |-> d, meta |-> m, path |-> EmptyPath, size |-> 0, err |-> "create"]
        ELSE IF io = "writeFail"
        THEN [disk |-> WriteFile(d, filePath, EmptyBytes), meta |-> m,
              path |-> EmptyPath, size |-> 0, err |-> "write"]
        ELSE [disk |-> WriteFile(d, filePath, data),
              meta |-> IF io = "metaFail" THEN m ELSE WriteFile(m, cp.ID, metadata),
              path |-> filePath, size |-> bytesWritten, err |-> "none"]

\* Validation that takes missing metadata for a failure.
validateCheckpointFile_Strict(d, m, id) ==
    LET filePath == getCheckpointPath(d, id)
    IN  IF filePath \notin DOMAIN d THEN "notAccessible"
        ELSE IF SizeOf(d[filePath]) = 0 THEN "empty"
        ELSE IF id \notin DOMAIN m THEN "metadata"
        ELSE IF calculateChecksum(d[filePath]) # m[id].Checksum THEN "checksum"
        ELSE "none"

\* validateCheckpointFile: the error, "none" when the file passes.
validateCheckpointFile(d, m, id) ==
    LET filePath == getCheckpointPath(d, id)
    IN  IF filePath \notin DOMAIN d THEN "notAccessible"
        ELSE IF SizeOf(d[filePath]) = 0 THEN "empty"
        ELSE IF id \notin DOMAIN m THEN "none"
        ELSE IF calculateChecksum(d[filePath]) # m[id].Checksum THEN "checksum"
        ELSE "none"

\* LoadCheckpoint: [err, cp].  For a compressed file it calls
\* DecodeAll(nil, nil) and then DecodeAll(decompressedData, compressedData):
\* the bytes read from the file are passed as dst and the empty slice as
\* input, so the bytes that reach the JSON decoder are the compressed ones.
LoadCheckpoint(d, m, id) ==
    LET filePath == getCheckpointPath(d, id)
        isCompressed == filePath.suf = "_compressed.bin"
        valid == validateCheckpointFile(d, m, id)
        decompressedData == DecodeAll(EmptyBytes, EmptyBytes)
        compressedData == d[filePath]
        decoded == IF ~isCompressed THEN [err |-> "none", data |-> d[filePath]]
                   ELSE IF decompressedData.err # "none" THEN decompressedData
                   ELSE DecodeAll(decompressedData.data, compressedData)
        parsed == deserializeCheckpoint(decoded.data)
    IN  IF valid # "none" THEN [err |-> valid, cp |-> NilCheckpoint]
        ELSE IF decoded.err # "none" THEN [err |-> decoded.err, cp |-> NilCheckpoint]
        ELSE IF parsed.err # "none" THEN [err |-> parsed.err, cp |-> NilCheckpoint]
        ELSE [err |-> "none",
              cp |-> [parsed.cp EXCEPT !.FilePath = filePath,
                                       !.IsCompressed = isCompressed]]

\* The directory entries LoadAllCheckpoints and CleanOldCheckpoints look at:
\* the files whose name ends in ".bin".
DataFiles(d) == {n \in DOMAIN d : HasSuffixBin(n)}

\* Order of two such names in os.ReadDir, which sorts by file name:
\* "<id>.bin" comes before "<id>_compressed.bin" because '.' < '_'.
NameBefore(a, b) ==
    a.id < b.id \/ (a.id = b.id /\ a.suf = ".bin" /\ b.suf = "_compressed.bin")

\* os.ReadDir restricted to the names in S, in directory order.
RECURSIVE ReadDir(_)
ReadDir(S) ==
    IF S = {} THEN <<>>
    ELSE LET first == CHOOSE x \in S : \A y \in S \ {x} : NameBefore(x, y)
         IN  <<first>> \o ReadDir(S \ {first})

\* The checkpoint summary LoadAllCheckpoints builds from metadata: no
\* Processes, the path getCheckpointPath gives, the size the metadata records.
SummaryOf(d, md, id) ==
    Checkpoint(md.ID, md.Timestamp, <<>>, md.AppNames, md.IsCompressed,
               getCheckpointPath(d, id),
               IF md.IsCompressed THEN md.CompressedSize ELSE md.OriginalSize)

\* An entry without metadata skipped at once, the full load left out.
ListEntry_NoFallback(d, m, id) ==
    IF id \in DOMAIN m THEN [ok |-> TRUE, cp |-> SummaryOf(d, m[id], id)]
    ELSE [ok |-> FALSE, cp |-> NilCheckpoint]

\* One iteration of the loop of LoadAllCheckpoints for the identifier id:
\* the summary from metadata, else the full checkpoint, else nothing
\* (continue); [ok, cp].
ListEntry(d, m, id) ==
    IF id \in DOMAIN m THEN [ok |-> TRUE, cp |-> SummaryOf(d, m[id], id)]
    ELSE LET r == LoadCheckpoint(d, m, id)
         IN  [ok |-> r.err = "none", cp |-> r.cp]

\* The loop of LoadAllCheckpoints over the names, appending to acc.
RECURSIVE LoadEntries(_, _, _, _)
LoadEntries(d, m, names, acc) ==
    IF names = <<>> THEN acc
    ELSE LET e == ListEntry(d, m, Head(names).id)
         IN  LoadEntries(d, m, Tail(names), IF e.ok THEN Append(acc, e.cp) ELSE acc)

\* LoadAllCheckpoints: [err, list]; the only error is that of os.ReadDir.
LoadAllCheckpoints(d, m, dirOk) ==
    IF ~dirOk THEN [err |-> "readdir", list |-> <<>>]
    ELSE [err |-> "none", list |-> LoadEntries(d, m, ReadDir(DataFiles(d)), <<>>)]

\* Outcomes of the file system calls of CompressCheckpoint.
CompressFaults == {"ok", "writeFail", "removeFail"}

\* CompressCheckpoint at time t on the checkpoint object cp, which it
\* changes: [disk, meta, mtime, err, cp].
CompressCheckpoint(d, m, mt, cp, io, t) ==
    LET originalPath == getCheckpointPath(d, cp.ID)
        compressedPath == CompressedName(cp.ID)
        compressedData == EncodeAll(d[originalPath])
        written == WriteFile(d, compressedPath, compressedData)
        metadata == [m[cp.ID] EXCEPT !.IsCompressed = TRUE,
                                     !.CompressedSize = SizeOf(compressedData),
                                     !.Checksum = calculateChecksum(compressedData)]
        removed == IF io = "removeFail" THEN written
                   ELSE RemoveFile(written, originalPath)
    IN  IF cp.IsCompressed
        THEN [disk |-> d, meta |-> m, mtime |-> mt, err |-> "none", cp |-> cp]
        ELSE IF originalPath \notin DOMAIN d
        THEN [disk |-> d, meta |-> m, mtime |-> mt, err |-> "read", cp |-> cp]
        ELSE IF io = "writeFail"
        THEN [disk |-> d, meta |-> m, mtime |-> mt, err |-> "write", cp |-> cp]
        ELSE [disk |-> removed,
              meta |-> IF cp.ID \in DOMAIN m THEN WriteFile(m, cp.ID, metadata) ELSE m,
              mtime |-> [n \in DOMAIN removed |->
                            IF n = compressedPath THEN t ELSE mt[n]],
              err |-> "none",
              cp |-> [cp EXCEPT !.IsCompressed = TRUE,
                                !.FilePath = compressedPath,
                                !.FileSize = SizeOf(compressedData)]]

\* CleanOldCheckpoints: [disk, meta, mtime, err].  The loop removes each
\* ".bin" entry modified before the cutoff, and its metadata, unless os.Remove
\* fails for it; the entries do not influence one another, so the result is
\* given for the set of entries removed.
CleanOldCheckpoints(d, m, mt, cutoffTime, undeletable, dirOk) ==
    LET deleted == {n \in DataFiles(d) :
                       TimeBefore(mt[n], cutoffTime) /\ n \notin undeletable}
        ids == {n.id : n \in deleted}
    IN  IF ~dirOk THEN [disk |-> d, meta |-> m, mtime |-> mt, err |-> "readdir"]
        ELSE [disk |-> [n \in DOMAIN d \ deleted |-> d[n]],
              meta |-> [id \in DOMAIN m \ ids |-> m[id]],
              mtime |-> [n \in DOMAIN mt \ deleted |-> mt[n]],
              err |-> "none"]

(***************************************************************************)
(* State                                                                   *)
(***************************************************************************)
VARIABLES
    disk,        \* checkpoint directory: file name -> bytes, for the files that exist
    meta,        \* metadata subdirectory: identifier -> CheckpointMetadata
    clock,       \* time.Now()
    creates,     \* CreateCheckpoint calls made so far
    createRes,   \* what the last CreateCheckpoint returned
    loadRes,     \* what the last LoadCheckpoint returned, since the last change of the disk
    fresh,       \* the checkpoint the last CreateCheckpoint returned, while no file has changed since
    flipped,     \* identifier whose saved data file had one byte changed, nothing else since
    mtime,       \* modification time of each file of the checkpoint directory
    listRes,     \* what the last GetAvailableCheckpoints returned, since the last change of the disk
    compressRes, \* the CompressCheckpoint calls made in succession on one checkpoint object
    cleanRes,    \* the last CleanOldCheckpoints: its arguments and the directory before it
    maintRes,    \* the last PerformMaintenanceTasks: the sub-tasks it ran, their errors, its own
    hb,          \* heartbeat file: "absent", "unreadable" or "readable"
    gap,         \* time since the heartbeat the file records
    osUptime,    \* time since the machine booted
    sysctlOk,    \* whether the sysctl command of getSystemUptime succeeds
    pidFile,     \* whether monitor.pid can be read
    pidAlive,    \* whether the process monitor.pid names is alive
    detected,    \* what DetectSystemState returned, "none" before the call
    handler,     \* the handler handleSystemState ran, "none" before the call
    hbUpdated,   \* whether the handler called updateHeartbeat
    cpCreated,   \* whether the handler had a checkpoint created
    restoreTriggered, \* whether the handler started a restoration
    loopsStarted,     \* whether Start has started the background loops
    pc,          \* RestoreFromCheckpoint: "idle", "loop", "retry" or "done"
    maxRetries,  \* config.GlobalConfig.MaxRetryAttempts
    given,       \* checkpoint.Processes handed to RestoreApplications
    sorted,      \* sortedProcesses
    idx,         \* position of the range loop in sortedProcesses
    attempt,     \* attempt of launchWithRetry
    results,     \* al.results
    restoreErr,  \* the error RestoreFromCheckpoint returned
    skipped,     \* applications found running when their turn came
    started,     \* applications handed to launchWithRetry, in order
    attemptLog,  \* launchApplication calls, in order: [app, ok]
    crashes,     \* ct.crashes of the tracker of the running process
    isDisabled,  \* ct.isDisabled
    now,         \* time.Now() of the crash tracker
    stateFile,   \* crash_state.json: [exists, obj], obj the JSON object it holds
    recorded,    \* instants of the RecordCrash calls made on this tracker
    lastSaved,   \* the tracker as it was at its last Save: [valid, crashes, isDisabled]
    loaded,      \* whether the tracker is fresh from Load, nothing done since
    sticky,      \* ShouldDisableAutoStart has returned true, flag not cleared since
    answer,      \* the last ShouldDisableAutoStart: [called, value, wasDisabled, wasSticky, at]
    saveRes,     \* the last SaveCheckpoint: its checkpoint, its error, what the directory held before
    inflight,    \* the SaveCheckpoint or CompressCheckpoint in progress and the step it has reached
    tryLog,      \* launchApplication calls tried: what each met and what it returned
    runStart,    \* len(al.results) when the current RestoreApplications began
    printed,     \* what handleRestore printed and returned
    workPattern, \* sm.workPattern of the SystemMonitor
    patternFile, \* work-pattern.json: the work pattern last saved, if any
    loopAt,      \* where each background loop of the monitor stands
    beats,       \* updateHeartbeat calls made: sm.lastHeartbeat
    monitorFault, \* the runtime fault that ended the daemon, "none" while it runs
    restart,     \* the last RestartWithBackoff: the policy given, what cmd.Start met, the result
    lockFile,    \* respawn.lock: the process id it holds, or absent
    instancePid, \* respawn.pid: the process id it holds, or absent
    inst,        \* each process in EnsureSingleInstance: its position and what it returned
    startAt,     \* the position of StartWithPolicy
    startRes     \* what StartWithPolicy met and returned

storageVars == <<disk, meta, clock, creates, createRes, loadRes, fresh, flipped,
                 mtime, listRes, compressRes, cleanRes, maintRes>>

detectVars == <<hb, gap, osUptime, sysctlOk, pidFile, pidAlive, detected,
                handler, hbUpdated, cpCreated, restoreTriggered, loopsStarted>>

launchVars == <<pc, maxRetries, given, sorted, idx, attempt, results, restoreErr,
                skipped, started, attemptLog>>

crashVars == <<crashes, isDisabled, now, stateFile, recorded, lastSaved, loaded,
               sticky, answer>>

stepVars == <<saveRes, inflight>>

cliVars == <<tryLog, runStart, printed>>

daemonVars == <<workPattern, patternFile, loopAt, beats, monitorFault>>

startupVars == <<restart, lockFile, instancePid, inst, startAt, startRes>>

vars == <<storageVars, detectVars, launchVars, crashVars, stepVars, cliVars,
          daemonVars, startupVars>>

NoLoad == [called |-> FALSE, id |-> NoID, err |-> "none", cp |-> NilCheckpoint]

NoCreate == [err |-> "none", cp |-> NilCheckpoint]

NoList == [called |-> FALSE, dirOk |-> TRUE, err |-> "none", Checkpoints |-> <<>>,
           LastUsed |-> NoID, TotalCount |-> 0, CompressedCount |-> 0]

NoSnapshot == [file |-> <<>>, meta |-> <<>>]

NoCompress == [n |-> 0, fromSave |-> FALSE, faulty |-> FALSE, err |-> "none",
               cp |-> NilCheckpoint, prevCp |-> NilCheckpoint,
               snap |-> NoSnapshot, prevSnap |-> NoSnapshot]

\* No PerformMaintenanceTasks yet; [called, steps, errs, err].
NoMaint == [called |-> FALSE, steps |-> <<>>, errs |-> <<>>, err |-> "none"]

NoClean == [called |-> FALSE, err |-> "none", cutoff |-> ZeroTime,
            undeletable |-> {}, disk |-> <<>>, meta |-> <<>>, mtime |-> <<>>]

\* A directory carried over from an installation whose data files are named
\* <id>.bin: NewStorage opens whatever the directory holds (MkdirAll on an
\* existing directory keeps its files).
CarriedOver(t, procs) ==
    LET cp == Checkpoint(FormatID(t), t, procs, NamesOf(procs), FALSE, EmptyPath, 0)
        data == serializeCheckpoint(cp)
    IN  [disk |-> WriteFile(<<>>, BinName(cp.ID), data),
         meta |-> WriteFile(<<>>, cp.ID,
                            Metadata(cp, SizeOf(data), calculateChecksum(data))),
         mtime |-> WriteFile(<<>>, BinName(cp.ID), t)]

EmptyDir == [disk |-> <<>>, meta |-> <<>>, mtime |-> <<>>]

InitialDirs ==
    {EmptyDir} \cup {CarriedOver([day |-> 0, sec |-> 0], procs) : procs \in Snapshots}

InitStorage ==
    /\ \E dir \in InitialDirs :
          disk = dir.disk /\ meta = dir.meta /\ mtime = dir.mtime
    /\ clock = [day |-> 0, sec |-> 0]
    /\ creates = 0
    /\ createRes = NoCreate
    /\ loadRes = NoLoad
    /\ fresh = NilCheckpoint
    /\ flipped = NoID
    /\ listRes = NoList
    /\ compressRes = NoCompress
    /\ cleanRes = NoClean
    /\ maintRes = NoMaint

\* The directory of a fresh installation, nothing done yet.
IdleStorage ==
    /\ disk = <<>>
    /\ meta = <<>>
    /\ mtime = <<>>
    /\ clock = [day |-> 0, sec |-> 0]
    /\ creates = 0
    /\ createRes = NoCreate
    /\ loadRes = NoLoad
    /\ fresh = NilCheckpoint
    /\ flipped = NoID
    /\ listRes = NoList
    /\ compressRes = NoCompress
    /\ cleanRes = NoClean
    /\ maintRes = NoMaint

\* No restoration has been asked for.
IdleLauncher ==
    /\ pc = "idle"
    /\ maxRetries = 1
    /\ given = <<>>
    /\ sorted = <<>>
    /\ idx = 1
    /\ attempt = 0
    /\ results = <<>>
    /\ restoreErr = "none"
    /\ skipped = {}
    /\ started = <<>>
    /\ attemptLog = <<>>

\* No SaveCheckpoint yet; [called, id, at, err, before]: the identifier and
\* the timestamp of the checkpoint saved, the error returned and what the
\* directory held under that identifier when the call began.
NoSave == [called |-> FALSE, id |-> NoID, at |-> ZeroTime, err |-> "none",
           before |-> [file |-> <<>>, meta |-> <<>>]]

\* No storage operation in progress; [op, step, cp, data, path]: the
\* operation, the number of file system calls it has made, the checkpoint it
\* was given and its local variables data and originalPath.
NoFlight == [op |-> "none", step |-> 0, cp |-> NilCheckpoint, data |-> <<>>,
             path |-> EmptyPath]

\* No handleRestore yet; [called, err, successful, failed].
NoPrint == [called |-> FALSE, err |-> "none", successful |-> 0, failed |-> 0]

\* No storage call under way.
IdleSteps ==
    /\ saveRes = NoSave
    /\ inflight = NoFlight

\* No command of the CLI run yet, no launch attempted.
IdleCli ==
    /\ tryLog = <<>>
    /\ runStart = 0
    /\ printed = NoPrint

\* The loops of a SystemMonitor.
Loops == {"monitoringLoop", "heartbeatLoop", "learningLoop"}

\* The WorkPattern NewSystemMonitor builds or loads, with the usage counts
\* given: nothing learnt yet.
NewWorkPattern(freq) ==
    [CPUPatterns |-> <<>>, AppUsageFrequency |-> freq, TopThreeApps |-> <<>>,
     IsLearningComplete |-> FALSE]

\* No monitor started: an empty work pattern, every loop at its ticker.
IdleDaemon ==
    /\ workPattern = NewWorkPattern(<<>>)
    /\ patternFile = <<>>
    /\ loopAt = [l \in Loops |-> "ticker"]
    /\ beats = 0
    /\ monitorFault = "none"

\* The processes that run EnsureSingleInstance, both alive.
Procs == {"p1", "p2"}

\* No RestartWithBackoff yet; [called, policy, starts, result].
NoRestart == [called |-> FALSE, policy |-> <<>>, starts |-> <<>>, result |-> <<>>]

\* StartWithPolicy not called; [called, err, selected, initTook, initErr]:
\* selected is the case the select statement took, initTook the seconds
\* initialize needed and initErr whether it returned an error.
NoStart == [called |-> FALSE, err |-> "none", selected |-> "none", initTook |-> 0,
            initErr |-> FALSE]

\* No startup manager at work, no lock taken.
IdleStartup ==
    /\ restart = NoRestart
    /\ lockFile = "absent"
    /\ instancePid = "absent"
    /\ inst = [p \in Procs |-> [pc |-> "idle", saw |-> "none", ret |-> "none"]]
    /\ startAt = "idle"
    /\ startRes = NoStart

\* The detector before any call, on a machine without a heartbeat file.
IdleDetector ==
    /\ hb = "absent"
    /\ gap = 0
    /\ osUptime = 0
    /\ sysctlOk = TRUE
    /\ pidFile = FALSE
    /\ pidAlive = FALSE
    /\ detected = "none"
    /\ handler = "none"
    /\ hbUpdated = FALSE
    /\ cpCreated = FALSE
    /\ restoreTriggered = FALSE
    /\ loopsStarted = FALSE

NoAnswer == [called |-> FALSE, value |-> FALSE, wasDisabled |-> FALSE,
             wasSticky |-> FALSE, at |-> 0]

NothingSaved == [valid |-> FALSE, crashes |-> <<>>, isDisabled |-> FALSE]

\* The tracker NewStartupManager builds when there is no state file.
IdleTracker ==
    /\ crashes = <<>>
    /\ isDisabled = FALSE
    /\ now = 0
    /\ stateFile = [exists |-> FALSE, obj |-> <<>>]
    /\ recorded = <<>>
    /\ lastSaved = NothingSaved
    /\ loaded = FALSE
    /\ sticky = FALSE
    /\ answer = NoAnswer

(***************************************************************************)
(* CheckpointManager: part_003                                             *)
(***************************************************************************)
\* CreateCheckpoint at time t with the processes found running and the
\* given outcome of the file system calls: [disk, meta, err, written, cp].
\* The modification times after the files in written were written at t.
Touch(mt, written, t) ==
    [n \in DOMAIN mt \cup written |-> IF n \in written THEN t ELSE mt[n]]

CreateCheckpoint(d, m, t, processes, io) ==
    LET checkpointID == FormatID(t)
        checkpoint == Checkpoint(checkpointID, t, processes, NamesOf(processes),
                                 FALSE, EmptyPath, 0)
        saved == SaveCheckpoint(d, m, checkpoint, io)
    IN  [disk |-> saved.disk, meta |-> saved.meta, err |-> saved.err,
         written |-> IF io = "createFail" THEN {} ELSE {SaveFileName(checkpointID)},
         cp |-> IF saved.err # "none" THEN NilCheckpoint
                ELSE [checkpoint EXCEPT !.FilePath = saved.path,
                                        !.FileSize = saved.size]]

DoCreateCheckpoint ==
    /\ creates < MaxCreates
    /\ \E t \in Times, processes \in Snapshots, io \in SaveFaults :
          /\ ~TimeBefore(t, clock)
          /\ LET r == CreateCheckpoint(disk, meta, t, processes, io)
             IN  /\ disk' = r.disk
                 /\ meta' = r.meta
                 /\ mtime' = Touch(mtime, r.written, t)
                 /\ createRes' = [err |-> r.err, cp |-> r.cp]
                 /\ fresh' = r.cp
          /\ clock' = t
    /\ creates' = creates + 1
    /\ loadRes' = NoLoad
    /\ flipped' = NoID
    /\ listRes' = NoList
    /\ compressRes' = NoCompress
    /\ cleanRes' = NoClean
    /\ maintRes' = NoMaint

DoLoadCheckpoint ==
    /\ \E id \in IDs :
          LET r == LoadCheckpoint(disk, meta, id)
          IN  loadRes' = [called |-> TRUE, id |-> id, err |-> r.err, cp |-> r.cp]
    /\ UNCHANGED <<disk, meta, clock, creates, createRes, fresh, flipped,
                   mtime, listRes, compressRes, cleanRes, maintRes>>

\* The environment changes one byte of an undamaged file of the directory.
FlipByte ==
    /\ \E name \in DOMAIN disk, kind \in {"syntax", "value"} :
          /\ disk[name].damage = "none"
          /\ disk' = [disk EXCEPT ![name].damage = kind]
          /\ flipped' = IF fresh # NilCheckpoint /\ name = fresh.FilePath
                        THEN fresh.ID ELSE NoID
    /\ fresh' = NilCheckpoint
    /\ loadRes' = NoLoad
    /\ listRes' = NoList
    /\ compressRes' = NoCompress
    /\ cleanRes' = NoClean
    /\ maintRes' = NoMaint
    /\ UNCHANGED <<meta, clock, creates, createRes, mtime>>

\* The comparison written with Before: oldest first.
TimestampLess_Before(a, b) == TimeBefore(a.Timestamp, b.Timestamp)

\* The less function of GetAvailableCheckpoints:
\* checkpoints[i].Timestamp.After(checkpoints[j].Timestamp).
TimestampLess(a, b) == TimeBefore(b.Timestamp, a.Timestamp)

RemoveAt(seq, i) == SubSeq(seq, 1, i - 1) \o SubSeq(seq, i + 1, Len(seq))

\* sort.Slice(checkpoints, less): the slice in an order in which no element
\* is less than an earlier one.  sort.Slice is not stable, so every such
\* arrangement of the elements is a possible result.
RECURSIVE SortSlice(_)
SortSlice(seq) ==
    IF seq = <<>> THEN {<<>>}
    ELSE UNION {{<<seq[i]>> \o rest : rest \in SortSlice(RemoveAt(seq, i))} :
                   i \in {k \in 1..Len(seq) :
                             \A j \in 1..Len(seq) : ~TimestampLess(seq[j], seq[k])}}

\* getLastUsedCheckpoint: returns the empty string.
getLastUsedCheckpoint(checkpoints) == NoID

\* GetAvailableCheckpoints: the CheckpointLists it can return.
GetAvailableCheckpoints(d, m, dirOk) ==
    LET all == LoadAllCheckpoints(d, m, dirOk)
    IN  IF all.err # "none"
        THEN {[called |-> TRUE, dirOk |-> dirOk, err |-> "load", Checkpoints |-> <<>>,
               LastUsed |-> NoID, TotalCount |-> 0, CompressedCount |-> 0]}
        ELSE {[called |-> TRUE, dirOk |-> dirOk, err |-> "none",
               Checkpoints |-> checkpoints,
               LastUsed |-> getLastUsedCheckpoint(checkpoints),
               TotalCount |-> Len(checkpoints),
               CompressedCount |->
                   Cardinality({i \in 1..Len(checkpoints) : checkpoints[i].IsCompressed})] :
              checkpoints \in SortSlice(all.list)}

DoGetAvailableCheckpoints ==
    /\ \E dirOk \in BOOLEAN :
          \E checkpointList \in GetAvailableCheckpoints(disk, meta, dirOk) :
             listRes' = checkpointList
    /\ UNCHANGED <<disk, meta, clock, creates, createRes, loadRes, fresh, flipped,
                   mtime, compressRes, cleanRes, maintRes>>

\* The compressed file and the metadata of one identifier, as they are on
\* disk.
SnapshotOf(d, m, id) ==
    [file |-> IF CompressedName(id) \in DOMAIN d THEN <<d[CompressedName(id)]>> ELSE <<>>,
     meta |-> IF id \in DOMAIN m THEN <<m[id]>> ELSE <<>>]

\* The checkpoint objects a caller can pass to CompressCheckpoint for a first
\* call: the one CreateCheckpoint returned and the entries of the list
\* GetAvailableCheckpoints returned; [cp, fromSave].
Compressible ==
    (IF createRes.err = "none" /\ createRes.cp # NilCheckpoint
     THEN {[cp |-> createRes.cp, fromSave |-> TRUE]} ELSE {})
    \cup {[cp |-> listRes.Checkpoints[i], fromSave |-> FALSE] :
              i \in 1..Len(listRes.Checkpoints)}

\* CompressCheckpoint, called on a new object or once more on the object of
\* the call before, its file system calls meeting one of CompressFaults.
DoCompressCheckpoint ==
    /\ compressRes.n < MaxCompress
    /\ \E io \in CompressFaults :
       \E obj \in IF compressRes.n > 0
                  THEN {[cp |-> compressRes.cp, fromSave |-> compressRes.fromSave]}
                  ELSE Compressible :
          LET r == CompressCheckpoint(disk, meta, mtime, obj.cp, io, clock)
              same == r.disk = disk /\ r.meta = meta
          IN  /\ disk' = r.disk
              /\ meta' = r.meta
              /\ mtime' = r.mtime
              /\ compressRes' = [n |-> compressRes.n + 1,
                                 fromSave |-> obj.fromSave,
                                 faulty |-> compressRes.faulty \/ io # "ok",
                                 err |-> r.err,
                                 cp |-> r.cp,
                                 prevCp |-> compressRes.cp,
                                 snap |-> SnapshotOf(r.disk, r.meta, obj.cp.ID),
                                 prevSnap |-> compressRes.snap]
              /\ fresh' = IF same THEN fresh ELSE NilCheckpoint
              /\ flipped' = IF same THEN flipped ELSE NoID
              /\ loadRes' = IF same THEN loadRes ELSE NoLoad
              /\ listRes' = IF same THEN listRes ELSE NoList
    /\ cleanRes' = NoClean
    /\ maintRes' = NoMaint
    /\ UNCHANGED <<clock, creates, createRes>>

\* CleanOldCheckpoints with a cutoff the caller chose; os.Remove fails for
\* the files in undeletable.
DoCleanOldCheckpoints ==
    /\ \E cutoffTime \in Times, dirOk \in BOOLEAN,
          undeletable \in {{}} \cup {{n} : n \in DataFiles(disk)} :
          LET r == CleanOldCheckpoints(disk, meta, mtime, cutoffTime, undeletable, dirOk)
          IN  /\ disk' = r.disk
              /\ meta' = r.meta
              /\ mtime' = r.mtime
              /\ cleanRes' = [called |-> TRUE, err |-> r.err, cutoff |-> cutoffTime,
                              undeletable |-> undeletable,
                              disk |-> disk, meta |-> meta, mtime |-> mtime]
    /\ fresh' = NilCheckpoint
    /\ flipped' = NoID
    /\ loadRes' = NoLoad
    /\ listRes' = NoList
    /\ compressRes' = NoCompress
    /\ maintRes' = NoMaint
    /\ UNCHANGED <<clock, creates, createRes>>

(***************************************************************************)
(* SaveCheckpoint and CompressCheckpoint one file system call at a time.   *)
(* The daemon's checkpoint and maintenance loops and the commands of the   *)
(* CLI work on the same directory without a lock, so a LoadCheckpoint can  *)
(* run between any two calls.                                              *)
(***************************************************************************)
\* SaveCheckpoint up to os.Create: the checkpoint is serialized and the file
\* exists with length zero.
SaveCreate ==
    /\ inflight.op = "none"
    /\ creates < MaxCreates
    /\ \E t \in Times, processes \in Snapshots :
          LET checkpoint == Checkpoint(FormatID(t), t, processes, NamesOf(processes),
                                       FALSE, EmptyPath, 0)
              filePath == SaveFileName(checkpoint.ID)
          IN  /\ ~TimeBefore(t, clock)
              /\ clock' = t
              /\ disk' = WriteFile(disk, filePath, EmptyBytes)
              /\ mtime' = Touch(mtime, {filePath}, t)
              /\ inflight' = [op |-> "save", step |-> 1, cp |-> checkpoint,
                              data |-> <<serializeCheckpoint(checkpoint)>>,
                              path |-> filePath]
    /\ creates' = creates + 1
    /\ UNCHANGED <<meta, createRes, loadRes, fresh, flipped, listRes, compressRes,
                   cleanRes, maintRes, saveRes>>

\* file.Write(data).
SaveWrite ==
    /\ inflight.op = "save" /\ inflight.step = 1
    /\ disk' = WriteFile(disk, inflight.path, inflight.data[1])
    /\ inflight' = [inflight EXCEPT !.step = 2]
    /\ UNCHANGED <<meta, clock, creates, createRes, loadRes, fresh, flipped, mtime,
                   listRes, compressRes, cleanRes, maintRes, saveRes>>

\* saveMetadata, then SaveCheckpoint returns.
SaveMetadata ==
    /\ inflight.op = "save" /\ inflight.step = 2
    /\ meta' = WriteFile(meta, inflight.cp.ID,
                         Metadata(inflight.cp, SizeOf(inflight.data[1]),
                                  calculateChecksum(inflight.data[1])))
    /\ inflight' = NoFlight
    /\ UNCHANGED <<disk, clock, creates, createRes, loadRes, fresh, flipped, mtime,
                   listRes, compressRes, cleanRes, maintRes, saveRes>>

\* The metadata of one identifier as a sequence of at most one element.
MetaOf(m, id) == IF id \in DOMAIN m THEN <<m[id]>> ELSE <<>>

\* The original removed before the compressed file is written.
CompressWrite_RemoveFirst ==
    /\ inflight.op = "none"
    /\ \E checkpointList \in GetAvailableCheckpoints(disk, meta, TRUE), ok \in BOOLEAN :
       \E i \in 1..Len(checkpointList.Checkpoints) :
          LET checkpoint == checkpointList.Checkpoints[i]
              originalPath == getCheckpointPath(disk, checkpoint.ID)
              compressedPath == CompressedName(checkpoint.ID)
              compressedData == EncodeAll(disk[originalPath])
              removed == RemoveFile(disk, originalPath)
          IN  /\ ~checkpoint.IsCompressed
              /\ originalPath \in DOMAIN disk
              /\ IF ok
                 THEN /\ disk' = WriteFile(removed, compressedPath, compressedData)
                      /\ mtime' = [n \in DOMAIN disk' |->
                                      IF n = compressedPath THEN clock ELSE mtime[n]]
                      /\ inflight' = [op |-> "compress", step |-> 1, cp |-> checkpoint,
                                      data |-> <<compressedData>>, path |-> originalPath]
                 ELSE /\ disk' = removed
                      /\ mtime' = [n \in DOMAIN disk' |-> mtime[n]]
                      /\ inflight' = [op |-> "compressErr", step |-> 0, cp |-> checkpoint,
                                      data |-> <<disk[originalPath],
                                                 MetaOf(meta, checkpoint.ID)>>,
                                      path |-> originalPath]
    /\ UNCHANGED <<meta, clock, creates, createRes, loadRes, fresh, flipped,
                   listRes, compressRes, cleanRes, maintRes, saveRes>>

\* CompressCheckpoint on an entry of the list up to os.WriteFile: the
\* original file is read and the compressed file written.  When the write
\* fails the call is about to return its error: inflight then holds the
\* original file and the metadata as they were when the call began.
CompressWrite ==
    /\ inflight.op = "none"
    /\ \E checkpointList \in GetAvailableCheckpoints(disk, meta, TRUE), ok \in BOOLEAN :
       \E i \in 1..Len(checkpointList.Checkpoints) :
          LET checkpoint == checkpointList.Checkpoints[i]
              originalPath == getCheckpointPath(disk, checkpoint.ID)
              compressedPath == CompressedName(checkpoint.ID)
              compressedData == EncodeAll(disk[originalPath])
          IN  /\ ~checkpoint.IsCompressed
              /\ originalPath \in DOMAIN disk
              /\ IF ok
                 THEN /\ disk' = WriteFile(disk, compressedPath, compressedData)
                      /\ mtime' = Touch(mtime, {compressedPath}, clock)
                      /\ inflight' = [op |-> "compress", step |-> 1, cp |-> checkpoint,
                                      data |-> <<compressedData>>, path |-> originalPath]
                 ELSE /\ UNCHANGED <<disk, mtime>>
                      /\ inflight' = [op |-> "compressErr", step |-> 0, cp |-> checkpoint,
                                      data |-> <<disk[originalPath],
                                                 MetaOf(meta, checkpoint.ID)>>,
                                      path |-> originalPath]
    /\ UNCHANGED <<meta, clock, creates, createRes, loadRes, fresh, flipped,
                   listRes, compressRes, cleanRes, maintRes, saveRes>>

\* CompressCheckpoint returns "Failed to write compressed checkpoint".
CompressReturnErr ==
    /\ inflight.op = "compressErr"
    /\ inflight' = NoFlight
    /\ UNCHANGED <<disk, meta, clock, creates, createRes, loadRes, fresh, flipped,
                   mtime, listRes, compressRes, cleanRes, maintRes, saveRes>>

\* loadMetadata and, when there is metadata, saveMetadata.
CompressMetadata ==
    /\ inflight.op = "compress" /\ inflight.step = 1
    /\ LET id == inflight.cp.ID
           compressedData == inflight.data[1]
       IN  meta' = IF id \notin DOMAIN meta THEN meta
                   ELSE WriteFile(meta, id,
                            [meta[id] EXCEPT !.IsCompressed = TRUE,
                                             !.CompressedSize = SizeOf(compressedData),
                                             !.Checksum = calculateChecksum(compressedData)])
    /\ inflight' = [inflight EXCEPT !.step = 2]
    /\ UNCHANGED <<disk, clock, creates, createRes, loadRes, fresh, flipped, mtime,
                   listRes, compressRes, cleanRes, maintRes, saveRes>>

\* os.Remove(originalPath), then CompressCheckpoint returns.
CompressRemove ==
    /\ inflight.op = "compress" /\ inflight.step = 2
    /\ disk' = RemoveFile(disk, inflight.path)
    /\ mtime' = [n \in DOMAIN disk' |-> mtime[n]]
    /\ inflight' = NoFlight
    /\ UNCHANGED <<meta, clock, creates, createRes, loadRes, fresh, flipped,
                   listRes, compressRes, cleanRes, maintRes, saveRes>>

\* LoadCheckpoint by another goroutine or process, at any moment.
LoadMeanwhile ==
    /\ DoLoadCheckpoint
    /\ UNCHANGED <<saveRes, inflight>>

NextSteps ==
    \/ SaveCreate /\ UNCHANGED <<detectVars, launchVars, crashVars, cliVars, daemonVars, startupVars>>
    \/ SaveWrite /\ UNCHANGED <<detectVars, launchVars, crashVars, cliVars, daemonVars, startupVars>>
    \/ SaveMetadata /\ UNCHANGED <<detectVars, launchVars, crashVars, cliVars, daemonVars, startupVars>>
    \/ CompressWrite /\ UNCHANGED <<detectVars, launchVars, crashVars, cliVars, daemonVars, startupVars>>
    \/ CompressMetadata /\ UNCHANGED <<detectVars, launchVars, crashVars, cliVars, daemonVars, startupVars>>
    \/ CompressRemove /\ UNCHANGED <<detectVars, launchVars, crashVars, cliVars, daemonVars, startupVars>>
    \/ CompressReturnErr /\ UNCHANGED <<detectVars, launchVars, crashVars, cliVars, daemonVars, startupVars>>
    \/ LoadMeanwhile /\ UNCHANGED <<detectVars, launchVars, crashVars, cliVars, daemonVars, startupVars>>

StepsInit == InitStorage /\ IdleDetector /\ IdleLauncher /\ IdleTracker
        /\ IdleSteps /\ IdleCli /\ IdleDaemon /\ IdleStartup

SpecSteps == StepsInit /\ [][NextSteps]_vars

\* What the directory holds under one identifier: the file SaveCheckpoint
\* writes for it and its metadata, each as a sequence of at most one element.
SavedUnder(d, m, id) ==
    [file |-> IF SaveFileName(id) \in DOMAIN d THEN <<d[SaveFileName(id)]>> ELSE <<>>,
     meta |-> IF id \in DOMAIN m THEN <<m[id]>> ELSE <<>>]

\* CreateCheckpoint, with a record of the SaveCheckpoint call it makes.
CreateRecorded ==
    /\ DoCreateCheckpoint
    /\ saveRes' = [called |-> TRUE, id |-> FormatID(clock'), at |-> clock',
                   err |-> createRes'.err,
                   before |-> SavedUnder(disk, meta, FormatID(clock'))]
    /\ UNCHANGED inflight

\* Checkpoints are created one after the other.
NextSave ==
    \/ CreateRecorded /\ UNCHANGED <<detectVars, launchVars, crashVars, cliVars, daemonVars, startupVars>>

SaveInit == InitStorage /\ IdleDetector /\ IdleLauncher /\ IdleTracker
        /\ IdleSteps /\ IdleCli /\ IdleDaemon /\ IdleStartup

SpecSave == SaveInit /\ [][NextSave]_vars

NextStorage ==
    \/ DoCreateCheckpoint /\ UNCHANGED <<detectVars, launchVars, crashVars, stepVars, cliVars, daemonVars, startupVars>>
    \/ DoLoadCheckpoint /\ UNCHANGED <<detectVars, launchVars, crashVars, stepVars, cliVars, daemonVars, startupVars>>
    \/ FlipByte /\ UNCHANGED <<detectVars, launchVars, crashVars, stepVars, cliVars, daemonVars, startupVars>>

StorageInit == InitStorage /\ IdleDetector /\ IdleLauncher /\ IdleTracker
        /\ IdleSteps /\ IdleCli /\ IdleDaemon /\ IdleStartup

SpecStorage == StorageInit /\ [][NextStorage]_vars

\* Checkpoints are created, compressed and cleaned.
NextMaintain ==
    \/ DoCreateCheckpoint /\ UNCHANGED <<detectVars, launchVars, crashVars, stepVars, cliVars, daemonVars, startupVars>>
    \/ DoCompressCheckpoint /\ UNCHANGED <<detectVars, launchVars, crashVars, stepVars, cliVars, daemonVars, startupVars>>
    \/ DoCleanOldCheckpoints /\ UNCHANGED <<detectVars, launchVars, crashVars, stepVars, cliVars, daemonVars, startupVars>>

MaintainInit == InitStorage /\ IdleDetector /\ IdleLauncher /\ IdleTracker
        /\ IdleSteps /\ IdleCli /\ IdleDaemon /\ IdleStartup

SpecMaintain == MaintainInit /\ [][NextMaintain]_vars

(***************************************************************************)
(* SystemStateDetector: logger.go                                          *)
(***************************************************************************)
\* os.IsExist in place of os.IsNotExist: never true for a missing file.
isFirstRun_IsExist(h) == FALSE

\* isFirstRun: os.IsNotExist of the Stat error of the heartbeat file.
isFirstRun(h) == h = "absent"

\* getSystemUptime: runs sysctl, logs its output and returns 2 * time.Hour
\* whatever the output says; [err, uptime].
getSystemUptime(ok, bootedFor) ==
    IF ok THEN [err |-> FALSE, uptime |-> PlaceholderUptime]
    ELSE [err |-> TRUE, uptime |-> PlaceholderUptime]

\* time.Now() returned for a file that cannot be read or parsed.
getLastHeartbeatTime_NowOnError(h, g) ==
    [zero |-> FALSE, since |-> IF h = "readable" THEN g ELSE 0]

\* getLastHeartbeatTime: the zero time when the file cannot be read or
\* parsed; [zero, since] with since = time.Since of the recorded time.
getLastHeartbeatTime(h, g) ==
    IF h = "readable" THEN [zero |-> FALSE, since |-> g]
    ELSE [zero |-> TRUE, since |-> 0]

\* process.Signal(os.Signal(nil)): the nil interface is no syscall.Signal,
\* so Signal returns "unsupported signal type" for every process.
SignalNilFails(alive) == TRUE

\* wasProcessRunning
wasProcessRunning(readable, alive) ==
    IF ~readable THEN FALSE ELSE ~SignalNilFails(alive)

\* DetectSystemState
DetectSystemState(h, g, ok, bootedFor, readable, alive) ==
    LET up == getSystemUptime(ok, bootedFor)
        lastHeartbeat == getLastHeartbeatTime(h, g)
        uptime == up.uptime
        timeSinceHeartbeat == lastHeartbeat.since
    IN  IF isFirstRun(h) THEN "FirstRun"
        ELSE IF up.err THEN "Unknown"
        ELSE IF lastHeartbeat.zero THEN "Restart"
        ELSE IF uptime < timeSinceHeartbeat THEN "Restart"
        ELSE IF timeSinceHeartbeat > TwoHours /\ uptime > timeSinceHeartbeat THEN "Sleep"
        ELSE IF ~wasProcessRunning(readable, alive) /\ timeSinceHeartbeat > FiveMinutes
        THEN "Crash"
        ELSE "Normal"

SystemStates == {"FirstRun", "Normal", "Sleep", "Restart", "Crash", "Unknown"}

\* The machine the daemon starts on.
InitDetect ==
    /\ hb \in {"absent", "unreadable", "readable"}
    /\ gap \in 0..MaxTicks
    /\ hb # "readable" => gap = 0
    /\ osUptime \in 0..MaxTicks
    /\ sysctlOk \in BOOLEAN
    /\ pidFile \in BOOLEAN
    /\ pidAlive \in BOOLEAN
    /\ pidAlive => pidFile
    /\ detected = "none"
    /\ handler = "none"
    /\ hbUpdated = FALSE
    /\ cpCreated = FALSE
    /\ restoreTriggered = FALSE
    /\ loopsStarted = FALSE

\* handleSystemState: the handler the switch selects.
handleSystemState(state) ==
    CASE state = "FirstRun" -> "createInitialCheckpoint"
      [] state = "Restart" -> "handleSystemRestart"
      [] state = "Sleep" -> "updateAfterSleep"
      [] state = "Crash" -> "handleCrashRecovery"
      [] state = "Normal" -> "resumeNormalOperation"
      [] OTHER -> "resumeNormalOperation"

\* The five handlers: what each does besides logging.  createInitialCheckpoint,
\* handleSystemRestart and handleCrashRecovery log and return nil;
\* updateAfterSleep and resumeNormalOperation call updateHeartbeat and return
\* nil.  [heartbeat, checkpoint, restoration, err].
HandlerEffect(h) ==
    [heartbeat |-> h \in {"updateAfterSleep", "resumeNormalOperation"},
     checkpoint |-> FALSE,
     restoration |-> FALSE,
     err |-> FALSE]

\* Start, first step: DetectSystemState.
DoDetectSystemState ==
    /\ detected = "none"
    /\ detected' = DetectSystemState(hb, gap, sysctlOk, osUptime, pidFile, pidAlive)
    /\ UNCHANGED <<hb, gap, osUptime, sysctlOk, pidFile, pidAlive,
                   handler, hbUpdated, cpCreated, restoreTriggered, loopsStarted>>

\* Start, second step: handleSystemState, then the three background loops
\* unless the handler returned an error.
DoHandleSystemState ==
    /\ detected # "none"
    /\ handler = "none"
    /\ LET h == handleSystemState(detected)
           e == HandlerEffect(h)
       IN  /\ handler' = h
           /\ hbUpdated' = e.heartbeat
           /\ cpCreated' = e.checkpoint
           /\ restoreTriggered' = e.restoration
           /\ loopsStarted' = ~e.err
    /\ UNCHANGED <<hb, gap, osUptime, sysctlOk, pidFile, pidAlive, detected>>

NextDetect ==
    \/ DoDetectSystemState /\ UNCHANGED <<storageVars, launchVars, crashVars, stepVars, cliVars, daemonVars, startupVars>>
    \/ DoHandleSystemState /\ UNCHANGED <<storageVars, launchVars, crashVars, stepVars, cliVars, daemonVars, startupVars>>

DetectInit == InitDetect /\ IdleStorage /\ IdleLauncher /\ IdleTracker
        /\ IdleSteps /\ IdleCli /\ IdleDaemon /\ IdleStartup

SpecDetect == DetectInit /\ [][NextDetect]_vars

(***************************************************************************)
(* ApplicationLauncher: launcher.go, SortByMemoryUsage: part_004           *)
(***************************************************************************)
Swap(s, j) == [s EXCEPT ![j] = s[j + 1], ![j + 1] = s[j]]

\* Inner loop of the bubble sort: j runs over 1..n, swapping when the left
\* neighbour is lighter.
RECURSIVE BubbleInner(_, _, _)
BubbleInner(s, j, n) ==
    IF j > n THEN s
    ELSE BubbleInner(IF s[j].MemoryMB < s[j + 1].MemoryMB THEN Swap(s, j) ELSE s,
                     j + 1, n)

\* Outer loop: i = 0 .. len(sorted)-2, inner bound len(sorted)-i-1.
RECURSIVE BubbleOuter(_, _)
BubbleOuter(s, i) ==
    IF i > Len(s) - 2 THEN s
    ELSE BubbleOuter(BubbleInner(s, 1, Len(s) - i - 1), i + 1)

\* The copy returned without the sorting loops.
SortByMemoryUsage_Unsorted(processes) == processes

\* SortByMemoryUsage: a sorted copy, heaviest first.
SortByMemoryUsage(processes) == BubbleOuter(processes, 0)

\* types.LaunchResult
LaunchResult(name, success, pid, retryCount, msg) ==
    [AppName |-> name, Success |-> success, PID |-> pid,
     RetryCount |-> retryCount, ErrorMsg |-> msg]

\* What one launchApplication call meets: the open command does not start,
\* it exits with an error, it succeeds and pgrep does not find the
\* application, or it succeeds and pgrep finds it.
LaunchOutcomes == {"startErr", "waitErr", "notFound", "found"}

\* What pgrep -f answers: it fails (no match is exit status 1), it prints
\* nothing, it prints a lone newline, or it prints a process identifier.
PgrepAnswers == {"err", "nothing", "newline", "pid"}

\* verifyApplicationLaunched: [pid, isRunning].
verifyApplicationLaunched(output) ==
    IF output = "err" THEN [pid |-> 0, isRunning |-> FALSE]
    ELSE IF output = "pid" THEN [pid |-> 1, isRunning |-> TRUE]
    ELSE [pid |-> 0, isRunning |-> FALSE]

\* The path launchApplication takes for the results of cmd.Start, cmd.Wait
\* and the lookup.
OutcomeOf(startOk, waitOk, output) ==
    IF ~startOk THEN "startErr"
    ELSE IF ~waitOk THEN "waitErr"
    ELSE IF ~verifyApplicationLaunched(output).isRunning THEN "notFound"
    ELSE "found"

\* The open command trusted: the lookup does not change the result.
launchApplication_Trusting(proc, outcome) ==
    IF outcome = "startErr"
    THEN LaunchResult(proc.Name, FALSE, 0, 0, "Failed to start process")
    ELSE IF outcome = "waitErr"
    THEN LaunchResult(proc.Name, FALSE, 0, 0, "Process execution failed")
    ELSE LaunchResult(proc.Name, TRUE, 1, 0, "")

\* launchApplication: the result of one attempt (RetryCount not yet set).
launchApplication(proc, outcome) ==
    IF outcome = "startErr"
    THEN LaunchResult(proc.Name, FALSE, 0, 0, "Failed to start process")
    ELSE IF outcome = "waitErr"
    THEN LaunchResult(proc.Name, FALSE, 0, 0, "Process execution failed")
    ELSE IF outcome = "notFound"
    THEN LaunchResult(proc.Name, FALSE, 0, 0, "Process Not Found After Launch")
    ELSE LaunchResult(proc.Name, TRUE, 1, 0, "")

\* The applications a single launch is tried for.
Launchable == {ProcessInfo(AppNamesAll[1], 0), ProcessInfo(AppNamesAll[2], 1)}

\* One call of launchApplication, with what the commands it runs answered.
DoLaunchApplication ==
    /\ Len(tryLog) < MaxTries
    /\ \E proc \in Launchable, startOk \in BOOLEAN, waitOk \in BOOLEAN,
          output \in PgrepAnswers :
          tryLog' = Append(tryLog,
                           [proc |-> proc, startOk |-> startOk, waitOk |-> waitOk,
                            output |-> output,
                            result |-> launchApplication(proc,
                                           OutcomeOf(startOk, waitOk, output))])
    /\ UNCHANGED <<runStart, printed>>

NextLaunch ==
    \/ DoLaunchApplication /\ UNCHANGED <<storageVars, detectVars, launchVars, crashVars, stepVars, daemonVars, startupVars>>

LaunchInit == IdleStorage /\ IdleDetector /\ IdleLauncher /\ IdleTracker
        /\ IdleSteps /\ IdleCli /\ IdleDaemon /\ IdleStartup

SpecLaunch == LaunchInit /\ [][NextLaunch]_vars

\* The running check ignored: every application is launched.
SkipsApplication_Never(isRunning) == FALSE

\* RestoreApplications: whether the loop skips the application (continue).
SkipsApplication(isRunning) == isRunning

\* The loop written "attempt < maxRetries": one attempt too few.
RetriesExhausted_OffByOne(a, n) == ~(a < n)

\* launchWithRetry: the loop "for attempt := 1; attempt <= maxRetries" is over.
RetriesExhausted(a, n) == ~(a <= n)

\* launchWithRetry: the result returned when every attempt has failed.
AllRetriesFailed(proc, n) == LaunchResult(proc.Name, FALSE, 0, n, "Failed after attempts")

\* Storage.LoadCheckpointByID, called by RestoreFromCheckpoint: the load of
\* one checkpoint by identifier that Storage offers.
LoadCheckpointByID(d, m, id) == LoadCheckpoint(d, m, id)

\* A failed application reported as an error of the restoration.
RestoreError_FailedApps(loadErr, launchErr, failed) ==
    IF loadErr # "none" THEN "load"
    ELSE IF launchErr # "none" \/ failed > 0 THEN "restore"
    ELSE "none"

\* RestoreFromCheckpoint: the error it returns, given the error of the load
\* and the error RestoreApplications returned (always nil).
RestoreError(loadErr, launchErr, failed) ==
    IF loadErr # "none" THEN "load"
    ELSE IF launchErr # "none" THEN "restore"
    ELSE "none"

\* GetLaunchSummary: [successful, failed, failedApps].
RECURSIVE GetLaunchSummary(_)
GetLaunchSummary(rs) ==
    IF rs = <<>> THEN [successful |-> 0, failed |-> 0, failedApps |-> <<>>]
    ELSE LET head == GetLaunchSummary(SubSeq(rs, 1, Len(rs) - 1))
             r == rs[Len(rs)]
         IN  IF r.Success
             THEN [head EXCEPT !.successful = @ + 1]
             ELSE [head EXCEPT !.failed = @ + 1,
                               !.failedApps = Append(@, r.AppName)]

\* Checkpoints found in the directory when a restoration is asked for.
RestorableLists == DetectRunningProcesses(MaxApps, MaxMem)

InitRestore ==
    /\ \E procs \in RestorableLists :
          LET dir == CarriedOver([day |-> 0, sec |-> 0], procs)
          IN  disk = dir.disk /\ meta = dir.meta /\ mtime = dir.mtime
    /\ clock = [day |-> 0, sec |-> 0]
    /\ creates = 0
    /\ createRes = NoCreate
    /\ loadRes = NoLoad
    /\ fresh = NilCheckpoint
    /\ flipped = NoID
    /\ listRes = NoList
    /\ compressRes = NoCompress
    /\ cleanRes = NoClean
    /\ maintRes = NoMaint
    /\ pc = "idle"
    /\ maxRetries \in 0..MaxRetries
    /\ given = <<>>
    /\ sorted = <<>>
    /\ idx = 1
    /\ attempt = 0
    /\ results = <<>>
    /\ restoreErr = "none"
    /\ skipped = {}
    /\ started = <<>>
    /\ attemptLog = <<>>

\* RestoreFromCheckpoint up to the start of the loop of RestoreApplications:
\* the load, a new launcher (empty results) and the sort.
RestoreBegin ==
    /\ pc = "idle"
    /\ \E id \in IDs :
          LET r == LoadCheckpointByID(disk, meta, id)
          IN  /\ loadRes' = [called |-> TRUE, id |-> id, err |-> r.err, cp |-> r.cp]
              /\ IF r.err # "none"
                 THEN /\ pc' = "done"
                      /\ restoreErr' = RestoreError(r.err, "none", 0)
                      /\ UNCHANGED <<given, sorted>>
                 ELSE /\ pc' = "loop"
                      /\ given' = r.cp.Processes
                      /\ sorted' = SortByMemoryUsage(r.cp.Processes)
                      /\ UNCHANGED restoreErr
    /\ idx' = 1
    /\ results' = <<>>
    /\ UNCHANGED <<maxRetries, attempt, skipped, started, attemptLog>>
    /\ UNCHANGED <<disk, meta, clock, creates, createRes, fresh, flipped,
                   mtime, listRes, compressRes, cleanRes, maintRes>>

\* Top of the range loop: isApplicationRunning, then skip or enter
\* launchWithRetry.
CheckRunning ==
    /\ pc = "loop"
    /\ idx <= Len(sorted)
    /\ \E isRunning \in BOOLEAN :
          /\ skipped' = IF isRunning THEN skipped \cup {sorted[idx].Name} ELSE skipped
          /\ IF SkipsApplication(isRunning)
             THEN /\ idx' = idx + 1
                  /\ UNCHANGED <<pc, attempt, started>>
             ELSE /\ pc' = "retry"
                  /\ attempt' = 1
                  /\ started' = Append(started, sorted[idx])
                  /\ UNCHANGED idx
    /\ UNCHANGED <<maxRetries, given, sorted, results, restoreErr, attemptLog>>
    /\ UNCHANGED storageVars

\* One iteration of the loop of launchWithRetry, or its end.
LaunchAttempt ==
    /\ pc = "retry"
    /\ IF RetriesExhausted(attempt, maxRetries)
       THEN /\ results' = Append(results, AllRetriesFailed(sorted[idx], maxRetries))
            /\ pc' = "loop"
            /\ idx' = idx + 1
            /\ UNCHANGED <<attempt, attemptLog>>
       ELSE \E outcome \in LaunchOutcomes :
              LET result == [launchApplication(sorted[idx], outcome)
                                EXCEPT !.RetryCount = attempt]
              IN  /\ attemptLog' = Append(attemptLog,
                                          [app |-> sorted[idx].Name, ok |-> result.Success])
                  /\ IF result.Success
                     THEN /\ results' = Append(results, result)
                          /\ pc' = "loop"
                          /\ idx' = idx + 1
                          /\ UNCHANGED attempt
                     ELSE /\ attempt' = attempt + 1
                          /\ UNCHANGED <<results, pc, idx>>
    /\ UNCHANGED <<maxRetries, given, sorted, restoreErr, skipped, started>>
    /\ UNCHANGED storageVars

\* RestoreApplications returns al.results and nil; RestoreFromCheckpoint
\* logs the summary and returns.
RestoreEnd ==
    /\ pc = "loop"
    /\ idx > Len(sorted)
    /\ pc' = "done"
    /\ restoreErr' = RestoreError("none", "none", GetLaunchSummary(results).failed)
    /\ UNCHANGED <<maxRetries, given, sorted, idx, attempt, results, skipped,
                   started, attemptLog>>
    /\ UNCHANGED storageVars

\* RestoreApplications called once more on the launcher of the restoration
\* that has returned, with the same processes: al.results is appended to as
\* it stands, the method does not empty it.
RestoreAgain ==
    /\ pc = "done"
    /\ loadRes.called /\ loadRes.err = "none"
    /\ runStart = 0
    /\ runStart' = Len(results)
    /\ pc' = "loop"
    /\ sorted' = SortByMemoryUsage(given)
    /\ idx' = 1
    /\ skipped' = {}
    /\ started' = <<>>
    /\ attemptLog' = <<>>
    /\ UNCHANGED <<maxRetries, given, attempt, results, restoreErr>>
    /\ UNCHANGED <<tryLog, printed>>
    /\ UNCHANGED storageVars

NextRerun ==
    \/ RestoreBegin /\ UNCHANGED <<detectVars, crashVars, stepVars, cliVars, daemonVars, startupVars>>
    \/ CheckRunning /\ UNCHANGED <<detectVars, crashVars, stepVars, cliVars, daemonVars, startupVars>>
    \/ LaunchAttempt /\ UNCHANGED <<detectVars, crashVars, stepVars, cliVars, daemonVars, startupVars>>
    \/ RestoreEnd /\ UNCHANGED <<detectVars, crashVars, stepVars, cliVars, daemonVars, startupVars>>
    \/ RestoreAgain /\ UNCHANGED <<detectVars, crashVars, stepVars, daemonVars, startupVars>>

RerunInit == InitRestore /\ IdleDetector /\ IdleTracker
        /\ IdleSteps /\ IdleCli /\ IdleDaemon /\ IdleStartup

SpecRerun == RerunInit /\ [][NextRerun]_vars

\* al.results of the launcher NewApplicationLauncher returns.
NewApplicationLauncher == <<>>

\* handleRestore after RestoreFromCheckpoint has returned: the error is
\* returned, wrapped, or the summary of app.launcher is printed.  app.launcher
\* is the launcher handleRestore made itself; the restoration ran on the one
\* RestoreFromCheckpoint made.
HandleRestoreEnd ==
    /\ pc = "done"
    /\ ~printed.called
    /\ LET summary == GetLaunchSummary(NewApplicationLauncher)
       IN  printed' = IF restoreErr # "none"
                      THEN [called |-> TRUE, err |-> "Restoration failed",
                            successful |-> 0, failed |-> 0]
                      ELSE [called |-> TRUE, err |-> "none",
                            successful |-> summary.successful,
                            failed |-> summary.failed]
    /\ UNCHANGED <<tryLog, runStart>>
    /\ UNCHANGED <<storageVars, launchVars>>

NextCommand ==
    \/ RestoreBegin /\ UNCHANGED <<detectVars, crashVars, stepVars, cliVars, daemonVars, startupVars>>
    \/ CheckRunning /\ UNCHANGED <<detectVars, crashVars, stepVars, cliVars, daemonVars, startupVars>>
    \/ LaunchAttempt /\ UNCHANGED <<detectVars, crashVars, stepVars, cliVars, daemonVars, startupVars>>
    \/ RestoreEnd /\ UNCHANGED <<detectVars, crashVars, stepVars, cliVars, daemonVars, startupVars>>
    \/ HandleRestoreEnd /\ UNCHANGED <<detectVars, crashVars, stepVars, daemonVars, startupVars>>

CommandInit == InitRestore /\ IdleDetector /\ IdleTracker
        /\ IdleSteps /\ IdleCli /\ IdleDaemon /\ IdleStartup

SpecCommand == CommandInit /\ [][NextCommand]_vars

NextRestore ==
    \/ RestoreBegin /\ UNCHANGED <<detectVars, crashVars, stepVars, cliVars, daemonVars, startupVars>>
    \/ CheckRunning /\ UNCHANGED <<detectVars, crashVars, stepVars, cliVars, daemonVars, startupVars>>
    \/ LaunchAttempt /\ UNCHANGED <<detectVars, crashVars, stepVars, cliVars, daemonVars, startupVars>>
    \/ RestoreEnd /\ UNCHANGED <<detectVars, crashVars, stepVars, cliVars, daemonVars, startupVars>>

RestoreInit == InitRestore /\ IdleDetector /\ IdleTracker
        /\ IdleSteps /\ IdleCli /\ IdleDaemon /\ IdleStartup

SpecRestore == RestoreInit /\ [][NextRestore]_vars

(***************************************************************************)
(* Listing and RestoreLatestCheckpoint: part_003                           *)
(***************************************************************************)
\* The entry taken from the other end of the list.
latestCheckpoint_Last(checkpoints) == checkpoints[Len(checkpoints)]

\* RestoreLatestCheckpoint: checkpointList.Checkpoints[0].
latestCheckpoint(checkpoints) == checkpoints[1]

\* RestoreLatestCheckpoint: the error of its two early returns.
RestoreLatestError(listErr, count) ==
    IF listErr # "none" THEN "list"
    ELSE IF count = 0 THEN "noCheckpoints"
    ELSE "none"

\* RestoreLatestCheckpoint up to the start of the loop of
\* RestoreApplications: GetAvailableCheckpoints, the two early returns, then
\* RestoreFromCheckpoint of the first entry.
RestoreLatestBegin ==
    /\ pc = "idle"
    /\ \E dirOk \in BOOLEAN :
          \E checkpointList \in GetAvailableCheckpoints(disk, meta, dirOk) :
             LET early == RestoreLatestError(checkpointList.err,
                                             Len(checkpointList.Checkpoints))
             IN  /\ listRes' = checkpointList
                 /\ IF early # "none"
                    THEN /\ pc' = "done"
                         /\ restoreErr' = early
                         /\ loadRes' = NoLoad
                         /\ UNCHANGED <<given, sorted>>
                    ELSE LET id == latestCheckpoint(checkpointList.Checkpoints).ID
                             r == LoadCheckpointByID(disk, meta, id)
                         IN  /\ loadRes' = [called |-> TRUE, id |-> id,
                                            err |-> r.err, cp |-> r.cp]
                             /\ IF r.err # "none"
                                THEN /\ pc' = "done"
                                     /\ restoreErr' = RestoreError(r.err, "none", 0)
                                     /\ UNCHANGED <<given, sorted>>
                                ELSE /\ pc' = "loop"
                                     /\ given' = r.cp.Processes
                                     /\ sorted' = SortByMemoryUsage(r.cp.Processes)
                                     /\ UNCHANGED restoreErr
    /\ idx' = 1
    /\ results' = <<>>
    /\ UNCHANGED <<maxRetries, attempt, skipped, started, attemptLog>>
    /\ UNCHANGED <<disk, meta, clock, creates, createRes, fresh, flipped,
                   mtime, compressRes, cleanRes, maintRes>>

\* The environment loses the metadata file of one identifier.
LoseMetadata ==
    /\ \E id \in DOMAIN meta : meta' = [k \in DOMAIN meta \ {id} |-> meta[k]]
    /\ fresh' = NilCheckpoint
    /\ flipped' = NoID
    /\ loadRes' = NoLoad
    /\ listRes' = NoList
    /\ compressRes' = NoCompress
    /\ cleanRes' = NoClean
    /\ maintRes' = NoMaint
    /\ UNCHANGED <<disk, clock, creates, createRes, mtime>>

\* CompressCheckpoint called on an entry of the list GetAvailableCheckpoints
\* returns, as compressOldCheckpoints calls it, its file system calls meeting
\* one of CompressFaults; the caller drops the object afterwards.
CompressEntry ==
    /\ \E checkpointList \in GetAvailableCheckpoints(disk, meta, TRUE),
          io \in CompressFaults :
          \E i \in 1..Len(checkpointList.Checkpoints) :
             LET r == CompressCheckpoint(disk, meta, mtime,
                                         checkpointList.Checkpoints[i], io, clock)
             IN  /\ disk' = r.disk
                 /\ meta' = r.meta
                 /\ mtime' = r.mtime
    /\ fresh' = NilCheckpoint
    /\ flipped' = NoID
    /\ loadRes' = NoLoad
    /\ listRes' = NoList
    /\ compressRes' = NoCompress
    /\ cleanRes' = NoClean
    /\ maintRes' = NoMaint
    /\ UNCHANGED <<clock, creates, createRes>>

\* What has happened to the directory since it was written: damaged files,
\* data files without metadata and compressed files.
Damage ==
    Cardinality({n \in DOMAIN disk : disk[n].damage # "none"})
    + Cardinality({n.id : n \in {k \in DOMAIN disk : k.id \notin DOMAIN meta}})
    + Cardinality({id \in IDs : CompressedName(id) \in DOMAIN disk})

\* The processes of the checkpoints the listed directory starts with.
ListedProcesses == <<ProcessInfo(AppNamesAll[1], 1)>>

\* A directory with one well-named checkpoint for each identifier to which
\* at assigns a time, and none where it assigns the zero time.
ListedDir(at) ==
    LET present == {id \in IDs : at[id] # ZeroTime}
        cpOf(id) == Checkpoint(id, at[id], ListedProcesses, NamesOf(ListedProcesses),
                               FALSE, EmptyPath, 0)
        names == {BinName(id) : id \in present}
    IN  [disk |-> [n \in names |-> serializeCheckpoint(cpOf(n.id))],
         meta |-> [id \in present |->
                      Metadata(cpOf(id), SizeOf(serializeCheckpoint(cpOf(id))),
                               calculateChecksum(serializeCheckpoint(cpOf(id))))],
         mtime |-> [n \in names |-> at[n.id]]]

\* The directories the listing starts from: any checkpoints whose
\* identifiers are the ones their timestamps format to.
ListedDirs ==
    {ListedDir(at) : at \in {f \in [IDs -> Times \cup {ZeroTime}] :
                                \A id \in IDs : f[id] # ZeroTime => FormatID(f[id]) = id}}

InitListing ==
    /\ \E dir \in ListedDirs :
          disk = dir.disk /\ meta = dir.meta /\ mtime = dir.mtime
    /\ clock = [day |-> 0, sec |-> 0]
    /\ creates = 0
    /\ createRes = NoCreate
    /\ loadRes = NoLoad
    /\ fresh = NilCheckpoint
    /\ flipped = NoID
    /\ listRes = NoList
    /\ compressRes = NoCompress
    /\ cleanRes = NoClean
    /\ maintRes = NoMaint

\* The manager lists and compresses the checkpoints of a directory that the
\* environment damages.
NextListing ==
    \/ DoGetAvailableCheckpoints
          /\ UNCHANGED <<detectVars, launchVars, crashVars, stepVars, cliVars, daemonVars, startupVars>>
    \/ CompressEntry /\ Damage' <= MaxDamage
          /\ UNCHANGED <<detectVars, launchVars, crashVars, stepVars, cliVars, daemonVars, startupVars>>
    \/ FlipByte /\ Damage' <= MaxDamage
          /\ UNCHANGED <<detectVars, launchVars, crashVars, stepVars, cliVars, daemonVars, startupVars>>
    \/ LoseMetadata /\ Damage' <= MaxDamage
          /\ UNCHANGED <<detectVars, launchVars, crashVars, stepVars, cliVars, daemonVars, startupVars>>

ListingInit == InitListing /\ IdleDetector /\ IdleLauncher /\ IdleTracker
        /\ IdleSteps /\ IdleCli /\ IdleDaemon /\ IdleStartup

SpecListing == ListingInit /\ [][NextListing]_vars

\* The manager restores the latest checkpoint of a directory that has been
\* compressed and damaged; a restoration, once begun, runs to its end.
NextLatest ==
    \/ pc = "idle" /\ FlipByte /\ Damage' <= MaxDamage
          /\ UNCHANGED <<detectVars, launchVars, crashVars, stepVars, cliVars, daemonVars, startupVars>>
    \/ pc = "idle" /\ LoseMetadata /\ Damage' <= MaxDamage
          /\ UNCHANGED <<detectVars, launchVars, crashVars, stepVars, cliVars, daemonVars, startupVars>>
    \/ pc = "idle" /\ CompressEntry /\ Damage' <= MaxDamage
          /\ UNCHANGED <<detectVars, launchVars, crashVars, stepVars, cliVars, daemonVars, startupVars>>
    \/ RestoreLatestBegin /\ UNCHANGED <<detectVars, crashVars, stepVars, cliVars, daemonVars, startupVars>>
    \/ CheckRunning /\ UNCHANGED <<detectVars, crashVars, stepVars, cliVars, daemonVars, startupVars>>
    \/ LaunchAttempt /\ UNCHANGED <<detectVars, crashVars, stepVars, cliVars, daemonVars, startupVars>>
    \/ RestoreEnd /\ UNCHANGED <<detectVars, crashVars, stepVars, cliVars, daemonVars, startupVars>>

LatestInit == InitListing /\ IdleDetector /\ IdleLauncher /\ IdleTracker
        /\ IdleSteps /\ IdleCli /\ IdleDaemon /\ IdleStartup

SpecLatest == LatestInit /\ [][NextLatest]_vars

\* compressOldCheckpoints: the timestamp the 24 hours are measured from,
\* that of the entry LastUsed names, and that of the first entry when
\* LastUsed is empty or names no entry.
lastUsedTime(checkpointList) ==
    LET cps == checkpointList.Checkpoints
        hits == {i \in 1..Len(cps) : cps[i].ID = checkpointList.LastUsed}
        first == CHOOSE i \in hits : \A j \in hits : i <= j
        found == IF checkpointList.LastUsed # NoID /\ hits # {}
                 THEN cps[first].Timestamp ELSE ZeroTime
    IN  IF found = ZeroTime /\ Len(cps) > 0 THEN cps[1].Timestamp ELSE found

\* t.Add(-24 * time.Hour) and t.AddDate(0, 0, -days).
AddDays(t, days) == [day |-> t.day + days, sec |-> t.sec]

\* checkDiskSpace: returns nil.
checkDiskSpace == "none"

\* Storage.cleanOldCheckpoints(cutoffTime), as CheckpointManager calls it.
storage_cleanOldCheckpoints(d, m, mt, cutoffTime, undeletable, dirOk) ==
    CleanOldCheckpoints(d, m, mt, cutoffTime, undeletable, dirOk)

\* CheckpointManager.cleanOldCheckpoints at time t: the cutoff is
\* retentionDays before now; [disk, meta, mtime, err].
cleanOldCheckpoints(d, m, mt, t, retentionDays, undeletable, dirOk) ==
    storage_cleanOldCheckpoints(d, m, mt, AddDays(t, 0 - retentionDays),
                                undeletable, dirOk)

\* The loop of compressOldCheckpoints from entry i on: CompressCheckpoint on
\* a copy of every entry that is not compressed and is older than the
\* threshold, io[i] the outcome its file system calls meet; an error is
\* logged and the loop goes on; [disk, meta, mtime].
RECURSIVE CompressEach(_, _, _, _, _, _, _, _)
CompressEach(d, m, mt, cps, i, compressionThreshold, io, t) ==
    IF i > Len(cps) THEN [disk |-> d, meta |-> m, mtime |-> mt]
    ELSE IF ~cps[i].IsCompressed /\ TimeBefore(cps[i].Timestamp, compressionThreshold)
    THEN LET r == CompressCheckpoint(d, m, mt, cps[i], io[i], t)
         IN  CompressEach(r.disk, r.meta, r.mtime, cps, i + 1,
                          compressionThreshold, io, t)
    ELSE CompressEach(d, m, mt, cps, i + 1, compressionThreshold, io, t)

\* compressOldCheckpoints, given the list GetAvailableCheckpoints returned:
\* [disk, meta, mtime, err].
compressOldCheckpoints(d, m, mt, checkpointList, io, t) ==
    IF checkpointList.err # "none"
    THEN [disk |-> d, meta |-> m, mtime |-> mt, err |-> "list"]
    ELSE IF Len(checkpointList.Checkpoints) = 0
    THEN [disk |-> d, meta |-> m, mtime |-> mt, err |-> "none"]
    ELSE LET compressionThreshold == AddDays(lastUsedTime(checkpointList), -1)
             r == CompressEach(d, m, mt, checkpointList.Checkpoints, 1,
                               compressionThreshold, io, t)
         IN  [disk |-> r.disk, meta |-> r.meta, mtime |-> r.mtime, err |-> "none"]

\* The sub-tasks of maintenance, in the order of the code.
MaintenanceTasks == <<"checkDiskSpace", "cleanOldCheckpoints", "compressOldCheckpoints">>

\* What one run of maintenance meets: the retention period, whether
\* os.Remove fails on the files of the directory, whether the two os.ReadDir
\* calls succeed and the outcome of the file system calls of its
\* CompressCheckpoint calls; [retentionDays, undeletable, cleanDirOk,
\* listDirOk, io].
MaintenanceEnvs(d) ==
    [retentionDays : 0..MaxDay,
     undeletable : {{}, DataFiles(d)},
     cleanDirOk : BOOLEAN,
     listDirOk : BOOLEAN,
     io : {[i \in 1..Cardinality(DataFiles(d)) |-> o] : o \in CompressFaults}]

\* The instant maintenance runs at: after every checkpoint was written.
MaintenanceTime == [day |-> MaxDay, sec |-> MaxSec]

\* Maintenance that returns the error of the first sub-task that fails and
\* runs no other.
PerformMaintenanceTasks_Abort(d, m, mt, env, t) ==
    LET cleaned == cleanOldCheckpoints(d, m, mt, t, env.retentionDays,
                                       env.undeletable, env.cleanDirOk)
        lists == GetAvailableCheckpoints(cleaned.disk, cleaned.meta, env.listDirOk)
    IN  IF cleaned.err # "none"
        THEN {[disk |-> cleaned.disk, meta |-> cleaned.meta, mtime |-> cleaned.mtime,
               steps |-> SubSeq(MaintenanceTasks, 1, 2),
               errs |-> <<checkDiskSpace, cleaned.err>>, err |-> cleaned.err]}
        ELSE {LET compressed == compressOldCheckpoints(cleaned.disk, cleaned.meta,
                                                       cleaned.mtime, l, env.io, t)
              IN  [disk |-> compressed.disk, meta |-> compressed.meta,
                   mtime |-> compressed.mtime, steps |-> MaintenanceTasks,
                   errs |-> <<checkDiskSpace, cleaned.err, compressed.err>>,
                   err |-> compressed.err] : l \in lists}

\* PerformMaintenanceTasks at time t: the three sub-tasks one after the
\* other, each error logged, nil returned; the set of
\* [disk, meta, mtime, steps, errs, err] it can end with.
PerformMaintenanceTasks(d, m, mt, env, t) ==
    LET cleaned == cleanOldCheckpoints(d, m, mt, t, env.retentionDays,
                                       env.undeletable, env.cleanDirOk)
        lists == GetAvailableCheckpoints(cleaned.disk, cleaned.meta, env.listDirOk)
    IN  {LET compressed == compressOldCheckpoints(cleaned.disk, cleaned.meta,
                                                  cleaned.mtime, l, env.io, t)
         IN  [disk |-> compressed.disk, meta |-> compressed.meta,
              mtime |-> compressed.mtime, steps |-> MaintenanceTasks,
              errs |-> <<checkDiskSpace, cleaned.err, compressed.err>>,
              err |-> "none"] : l \in lists}

DoPerformMaintenanceTasks ==
    /\ \E env \in MaintenanceEnvs(disk) :
          \E r \in PerformMaintenanceTasks(disk, meta, mtime, env, MaintenanceTime) :
             /\ disk' = r.disk
             /\ meta' = r.meta
             /\ mtime' = r.mtime
             /\ maintRes' = [called |-> TRUE, steps |-> r.steps, errs |-> r.errs,
                             err |-> r.err]
    /\ fresh' = NilCheckpoint
    /\ flipped' = NoID
    /\ loadRes' = NoLoad
    /\ listRes' = NoList
    /\ compressRes' = NoCompress
    /\ cleanRes' = NoClean
    /\ UNCHANGED <<clock, creates, createRes>>

\* Maintenance runs on a directory that loses metadata in between.
NextUpkeep ==
    \/ DoPerformMaintenanceTasks
          /\ UNCHANGED <<detectVars, launchVars, crashVars, stepVars, cliVars, daemonVars, startupVars>>
    \/ LoseMetadata /\ Damage' <= MaxDamage
          /\ UNCHANGED <<detectVars, launchVars, crashVars, stepVars, cliVars, daemonVars, startupVars>>

UpkeepInit == InitListing /\ IdleDetector /\ IdleLauncher /\ IdleTracker
        /\ IdleSteps /\ IdleCli /\ IdleDaemon /\ IdleStartup

SpecUpkeep == UpkeepInit /\ [][NextUpkeep]_vars

\* The manager restores one checkpoint of a directory and lists the
\* directory once the restoration has returned.
NextLastUsed ==
    \/ RestoreBegin /\ UNCHANGED <<detectVars, crashVars, stepVars, cliVars, daemonVars, startupVars>>
    \/ CheckRunning /\ UNCHANGED <<detectVars, crashVars, stepVars, cliVars, daemonVars, startupVars>>
    \/ LaunchAttempt /\ UNCHANGED <<detectVars, crashVars, stepVars, cliVars, daemonVars, startupVars>>
    \/ RestoreEnd /\ UNCHANGED <<detectVars, crashVars, stepVars, cliVars, daemonVars, startupVars>>
    \/ pc = "done" /\ DoGetAvailableCheckpoints
          /\ UNCHANGED <<detectVars, launchVars, crashVars, stepVars, cliVars, daemonVars, startupVars>>

LastUsedInit == InitListing /\ IdleDetector /\ IdleLauncher /\ IdleTracker
        /\ IdleSteps /\ IdleCli /\ IdleDaemon /\ IdleStartup

SpecLastUsed == LastUsedInit /\ [][NextLastUsed]_vars

(***************************************************************************)
(* CrashTracker: part_002                                                  *)
(***************************************************************************)
\* The fields of CrashTracker that encoding/json sees: the exported ones.
\* crashes, maxCrashes, windowPeriod, isDisabled and stateFile all start with
\* a lower-case letter, so there is none.
ExportedFields == {}

\* json.MarshalIndent(ct): the object of the exported fields.
MarshalTracker(cs, dis) ==
    [f \in ExportedFields |-> IF f = "crashes" THEN cs ELSE <<dis>>]

\* json.Unmarshal(data, ct): sets the fields the object names and leaves the
\* others as they are; [crashes, isDisabled].
UnmarshalTracker(obj, cs, dis) ==
    [crashes |-> IF "crashes" \in DOMAIN obj THEN obj["crashes"] ELSE cs,
     isDisabled |-> IF "isDisabled" \in DOMAIN obj THEN obj["isDisabled"][1] ELSE dis]

\* Save: os.WriteFile of the marshalled tracker.
SaveTracker(cs, dis) == [exists |-> TRUE, obj |-> MarshalTracker(cs, dis)]

\* crashTime.After(cutoff), cutoff = time.Now().Add(-ct.windowPeriod)
InWindow(crashTime, t) == crashTime > t - windowPeriod

\* The pruning loop left out: every crash is kept.
cleanOldCrashes_KeepAll(cs, t) == cs

\* cleanOldCrashes: the crashes after the cutoff, in order.
cleanOldCrashes(cs, t) == SelectSeq(cs, LAMBDA c : InWindow(c, t))

\* time passes
Advance ==
    /\ now < MaxNow
    /\ now' = now + 1
    /\ UNCHANGED <<crashes, isDisabled, stateFile, recorded, lastSaved, loaded,
                   sticky, answer>>

\* RecordCrash: append, prune, Save.
DoRecordCrash ==
    /\ Len(recorded) < MaxRecords
    /\ LET valid == cleanOldCrashes(Append(crashes, now), now)
       IN  /\ crashes' = valid
           /\ stateFile' = SaveTracker(valid, isDisabled)
           /\ lastSaved' = [valid |-> TRUE, crashes |-> valid, isDisabled |-> isDisabled]
    /\ recorded' = Append(recorded, now)
    /\ loaded' = FALSE
    /\ answer' = NoAnswer
    /\ UNCHANGED <<isDisabled, now, sticky>>

\* ShouldDisableAutoStart
DoShouldDisableAutoStart ==
    /\ IF isDisabled
       THEN /\ answer' = [called |-> TRUE, value |-> TRUE, wasDisabled |-> TRUE,
                          wasSticky |-> sticky, at |-> now]
            /\ sticky' = TRUE
            /\ UNCHANGED <<crashes, isDisabled, stateFile, lastSaved>>
       ELSE LET valid == cleanOldCrashes(crashes, now)
            IN  /\ crashes' = valid
                /\ IF Len(valid) >= maxCrashes
                   THEN /\ isDisabled' = TRUE
                        /\ stateFile' = SaveTracker(valid, TRUE)
                        /\ lastSaved' = [valid |-> TRUE, crashes |-> valid,
                                     isDisabled |-> TRUE]
                        /\ sticky' = TRUE
                        /\ answer' = [called |-> TRUE, value |-> TRUE,
                                      wasDisabled |-> FALSE, wasSticky |-> sticky,
                                      at |-> now]
                   ELSE /\ answer' = [called |-> TRUE, value |-> FALSE,
                                      wasDisabled |-> FALSE, wasSticky |-> sticky,
                                      at |-> now]
                        /\ UNCHANGED <<isDisabled, stateFile, lastSaved, sticky>>
    /\ loaded' = FALSE
    /\ UNCHANGED <<now, recorded>>

\* What EnableAutoStart meets: the launch agent is not installed, launchctl
\* fails, or both steps pass.
EnableOutcomes == {"notInstalled", "enableFail", "ok"}

\* StartupManager.EnableAutoStart: clears the flag and saves, unless one of
\* the two early returns is taken.
DoEnableAutoStart ==
    /\ \E outcome \in EnableOutcomes :
          IF outcome = "ok"
          THEN /\ isDisabled' = FALSE
               /\ stateFile' = SaveTracker(crashes, FALSE)
               /\ lastSaved' = [valid |-> TRUE, crashes |-> crashes, isDisabled |-> FALSE]
               /\ sticky' = FALSE
          ELSE UNCHANGED <<isDisabled, stateFile, lastSaved, sticky>>
    /\ loaded' = FALSE
    /\ answer' = NoAnswer
    /\ UNCHANGED <<crashes, now, recorded>>

\* A new process (the daemon started again, or a command of the CLI):
\* NewStartupManager builds an empty tracker and calls Load on the state
\* file; a missing file leaves the tracker empty.
NewStartupManager ==
    /\ LET ct == IF stateFile.exists
                 THEN UnmarshalTracker(stateFile.obj, <<>>, FALSE)
                 ELSE [crashes |-> <<>>, isDisabled |-> FALSE]
       IN  /\ crashes' = ct.crashes
           /\ isDisabled' = ct.isDisabled
    /\ loaded' = stateFile.exists
    /\ recorded' = <<>>
    /\ answer' = NoAnswer
    /\ UNCHANGED <<now, stateFile, lastSaved, sticky>>

NextCrash ==
    \/ Advance /\ UNCHANGED <<storageVars, detectVars, launchVars, stepVars, cliVars, daemonVars, startupVars>>
    \/ DoRecordCrash /\ UNCHANGED <<storageVars, detectVars, launchVars, stepVars, cliVars, daemonVars, startupVars>>
    \/ DoShouldDisableAutoStart /\ UNCHANGED <<storageVars, detectVars, launchVars, stepVars, cliVars, daemonVars, startupVars>>
    \/ DoEnableAutoStart /\ UNCHANGED <<storageVars, detectVars, launchVars, stepVars, cliVars, daemonVars, startupVars>>
    \/ NewStartupManager /\ UNCHANGED <<storageVars, detectVars, launchVars, stepVars, cliVars, daemonVars, startupVars>>

CrashInit == IdleTracker /\ IdleStorage /\ IdleDetector /\ IdleLauncher
        /\ IdleSteps /\ IdleCli /\ IdleDaemon /\ IdleStartup

SpecCrash == CrashInit /\ [][NextCrash]_vars

(***************************************************************************)
(* SystemMonitor, work pattern learning and background loops: logger.go    *)
(***************************************************************************)
\* The usage counts a work pattern can hold: a count for some of the
\* applications.
UsageMaps ==
    UNION {[names -> 1..MaxCount] :
              names \in SUBSET {AppNamesAll[i] : i \in 1..MaxUsed}}

\* The orders in which "for appName, count := range" can visit the keys of a
\* map: Go leaves the order open.
RangeOrders(S) ==
    {o \in [1..Cardinality(S) -> S] :
        \A i, j \in 1..Cardinality(S) : i # j => o[i] # o[j]}

\* completeLearning on the work pattern wp, the map visited in the given
\* order: [wp, fault].  The bubble sort puts the larger count first; the
\* copying loop "for i := 0; 1 < topCount; i++" tests a condition that does
\* not depend on i.
completeLearning(wp, order) ==
    LET n == Len(order)
        usage == [i \in 1..n |->
                     [name |-> order[i], count |-> wp.AppUsageFrequency[order[i]]]]
        RECURSIVE inner(_, _, _)
        inner(u, j, last) ==
            IF j > last THEN u
            ELSE inner(IF u[j].count < u[j + 1].count
                       THEN [u EXCEPT ![j] = u[j + 1], ![j + 1] = u[j]] ELSE u,
                       j + 1, last)
        RECURSIVE outer(_, _)
        outer(u, i) ==
            IF i > Len(u) - 2 THEN u
            ELSE outer(inner(u, 1, Len(u) - i - 1), i + 1)
        sortedUsage == outer(usage, 0)
        topCount == IF n < 3 THEN n ELSE 3
        RECURSIVE copy(_, _)
        copy(top, i) ==
            IF ~(1 < topCount) THEN [top |-> top, fault |-> "none"]
            ELSE IF i >= topCount THEN [top |-> top, fault |-> "index out of range"]
            ELSE copy([top EXCEPT ![i + 1] = sortedUsage[i + 1].name], i + 1)
        copied == copy([i \in 1..topCount |-> ""], 0)
    IN  IF copied.fault # "none"
        THEN [wp |-> [wp EXCEPT !.TopThreeApps = copied.top], fault |-> copied.fault]
        ELSE [wp |-> [wp EXCEPT !.TopThreeApps = copied.top,
                                !.IsLearningComplete = TRUE],
              fault |-> "none"]

\* What getCPUUsage returns: an error or a reading; [err, value].
CpuReadings ==
    {[err |-> TRUE, value |-> 0]} \cup {[err |-> FALSE, value |-> v] : v \in 0..MaxCpu}

\* updateLearningData: [wp, fault, saved].  seenComplete is the value of
\* IsLearningComplete the call read at its first line, monthOver whether
\* thirty days have passed since LearningStartDate.
updateLearningData(wp, seenComplete, currentHour, cpuUsage, monthOver, order) ==
    LET noted == IF cpuUsage.err THEN wp
                 ELSE [wp EXCEPT !.CPUPatterns =
                          [h \in DOMAIN @ \cup {currentHour} |->
                              IF h = currentHour THEN cpuUsage.value ELSE @[h]]]
        done == IF monthOver THEN completeLearning(noted, order)
                ELSE [wp |-> noted, fault |-> "none"]
    IN  IF seenComplete THEN [wp |-> wp, fault |-> "none", saved |-> FALSE]
        ELSE [wp |-> done.wp, fault |-> done.fault, saved |-> done.fault = "none"]

\* The effect of one updateLearningData call on the monitor.
Learn(seenComplete) ==
    \E currentHour \in 0..MaxHour, cpuUsage \in CpuReadings, monthOver \in BOOLEAN,
       order \in RangeOrders(DOMAIN workPattern.AppUsageFrequency) :
       LET r == updateLearningData(workPattern, seenComplete, currentHour,
                                   cpuUsage, monthOver, order)
       IN  /\ workPattern' = r.wp
           /\ patternFile' = IF r.saved THEN <<r.wp>> ELSE patternFile
           /\ monitorFault' = r.fault

\* A monitor whose work pattern was loaded from work-pattern.json.
InitMonitor ==
    /\ \E freq \in UsageMaps : workPattern = NewWorkPattern(freq)
    /\ patternFile = <<workPattern>>
    /\ loopAt = [l \in Loops |-> "ticker"]
    /\ beats = 0
    /\ monitorFault = "none"

\* updateLearningData, called by one loop with no other loop running.
DoUpdateLearningData ==
    /\ monitorFault = "none"
    /\ Learn(workPattern.IsLearningComplete)
    /\ UNCHANGED <<loopAt, beats>>

NextLearning ==
    \/ DoUpdateLearningData /\ UNCHANGED <<storageVars, detectVars, launchVars, crashVars, stepVars, cliVars, startupVars>>

LearningInit == InitMonitor /\ IdleStorage /\ IdleDetector /\ IdleLauncher
        /\ IdleTracker /\ IdleSteps /\ IdleCli /\ IdleStartup

SpecLearning == LearningInit /\ [][NextLearning]_vars

\* monitoringLoop (through performMonitoringCycle) or learningLoop takes a
\* tick and enters updateLearningData: it has read IsLearningComplete as
\* false and stands before the writes.  Nothing is locked: the monitor has no
\* mutex.
EnterUpdate ==
    /\ monitorFault = "none"
    /\ ~workPattern.IsLearningComplete
    /\ \E l \in {"monitoringLoop", "learningLoop"} :
          /\ loopAt[l] = "ticker"
          /\ loopAt' = [loopAt EXCEPT ![l] = "updateLearningData"]
    /\ UNCHANGED <<workPattern, patternFile, beats, monitorFault>>

\* The loop writes CPUPatterns, completes the learning when the month is
\* over, saves and goes back to its ticker.  While the other loop stands in
\* updateLearningData too the two write one map without synchronisation: the
\* Go runtime may stop the program ("concurrent map writes") or let the
\* writes through.
LeaveUpdate ==
    /\ monitorFault = "none"
    /\ \E l \in {"monitoringLoop", "learningLoop"} :
          /\ loopAt[l] = "updateLearningData"
          /\ loopAt' = [loopAt EXCEPT ![l] = "ticker"]
          /\ \/ Learn(FALSE)
             \/ /\ \E other \in Loops \ {l} : loopAt[other] = "updateLearningData"
                /\ monitorFault' = "concurrent map writes"
                /\ UNCHANGED <<workPattern, patternFile>>
    /\ UNCHANGED beats

\* heartbeatLoop takes a tick: updateHeartbeat sets sm.lastHeartbeat and
\* writes the heartbeat file.
UpdateHeartbeat ==
    /\ monitorFault = "none"
    /\ beats < MaxBeats
    /\ beats' = beats + 1
    /\ hb' = "readable"
    /\ gap' = 0
    /\ UNCHANGED <<osUptime, sysctlOk, pidFile, pidAlive, detected, handler,
                   hbUpdated, cpCreated, restoreTriggered, loopsStarted>>
    /\ UNCHANGED <<workPattern, patternFile, loopAt, monitorFault>>

NextLoops ==
    \/ EnterUpdate /\ UNCHANGED <<storageVars, detectVars, launchVars, crashVars, stepVars, cliVars, startupVars>>
    \/ LeaveUpdate /\ UNCHANGED <<storageVars, detectVars, launchVars, crashVars, stepVars, cliVars, startupVars>>
    \/ UpdateHeartbeat /\ UNCHANGED <<storageVars, launchVars, crashVars, stepVars, cliVars, startupVars>>

LoopsInit == InitMonitor /\ IdleStorage /\ IdleDetector /\ IdleLauncher
        /\ IdleTracker /\ IdleSteps /\ IdleCli /\ IdleStartup

SpecLoops == LoopsInit /\ [][NextLoops]_vars

\* The checkpoints of a listed directory are compressed one file system call
\* at a time, with loads in between; between two compressions the directory
\* may lose metadata.
NextCompress ==
    \/ CompressWrite /\ UNCHANGED <<detectVars, launchVars, crashVars, cliVars, daemonVars, startupVars>>
    \/ CompressMetadata /\ UNCHANGED <<detectVars, launchVars, crashVars, cliVars, daemonVars, startupVars>>
    \/ CompressRemove /\ UNCHANGED <<detectVars, launchVars, crashVars, cliVars, daemonVars, startupVars>>
    \/ CompressReturnErr /\ UNCHANGED <<detectVars, launchVars, crashVars, cliVars, daemonVars, startupVars>>
    \/ LoadMeanwhile /\ UNCHANGED <<detectVars, launchVars, crashVars, cliVars, daemonVars, startupVars>>
    \/ inflight.op = "none" /\ LoseMetadata
          /\ UNCHANGED <<detectVars, launchVars, crashVars, stepVars, cliVars, daemonVars, startupVars>>

CompressInit == InitListing /\ IdleDetector /\ IdleLauncher /\ IdleTracker
        /\ IdleSteps /\ IdleCli /\ IdleDaemon /\ IdleStartup

SpecCompress == CompressInit /\ [][NextCompress]_vars

\* Single checkpoints are loaded from a directory that loses metadata, is
\* damaged and is compressed in between.
NextOrphan ==
    \/ DoLoadCheckpoint /\ UNCHANGED <<detectVars, launchVars, crashVars, stepVars, cliVars, daemonVars, startupVars>>
    \/ LoseMetadata /\ Damage' <= MaxDamage
          /\ UNCHANGED <<detectVars, launchVars, crashVars, stepVars, cliVars, daemonVars, startupVars>>
    \/ FlipByte /\ Damage' <= MaxDamage
          /\ UNCHANGED <<detectVars, launchVars, crashVars, stepVars, cliVars, daemonVars, startupVars>>
    \/ CompressEntry /\ Damage' <= MaxDamage
          /\ UNCHANGED <<detectVars, launchVars, crashVars, stepVars, cliVars, daemonVars, startupVars>>

OrphanInit == InitListing /\ IdleDetector /\ IdleLauncher /\ IdleTracker
        /\ IdleSteps /\ IdleCli /\ IdleDaemon /\ IdleStartup

SpecOrphan == OrphanInit /\ [][NextOrphan]_vars

(***************************************************************************)
(* StartupManager: restart with backoff, single instance, start            *)
(***************************************************************************)
\* The restart policies given to RestartWithBackoff: types.RestartPolicy with
\* any list of pauses, the empty one included; a pause is a number of seconds.
Policies ==
    [MaxRetries : 0..MaxPolicyRetries,
     BackoffIntervals : UNION {[1..n -> 1..MaxPause] : n \in 0..MaxIntervals},
     CurrentRetry : 0..MaxPolicyRetries]

\* What cmd.Start meets at each attempt: TRUE when the process starts.
StartOutcomes == [1..MaxPolicyRetries -> BOOLEAN]

\* RestartWithBackoff(policy), the recursion of the source; slept is the list
\* of pauses taken so far.  BackoffIntervals is indexed from 0 in the source,
\* from 1 here.  An index outside the list is the runtime fault
\* "index out of range".
RECURSIVE RestartWithBackoff(_, _, _)
RestartWithBackoff(policy, starts, slept) ==
    IF policy.CurrentRetry >= policy.MaxRetries
    THEN [err |-> "max retries", policy |-> policy, slept |-> slept, fault |-> "none"]
    ELSE LET n == Len(policy.BackoffIntervals)
             backoffIndex == IF policy.CurrentRetry >= n THEN n - 1
                             ELSE policy.CurrentRetry
         IN  IF backoffIndex \notin 0..(n - 1)
             THEN [err |-> "none", policy |-> policy, slept |-> slept,
                   fault |-> "index out of range"]
             ELSE LET backoff == policy.BackoffIntervals[backoffIndex + 1]
                      next == [policy EXCEPT !.CurrentRetry = @ + 1]
                      paused == Append(slept, backoff)
                  IN  IF starts[Len(paused)]
                      THEN [err |-> "none", policy |-> next, slept |-> paused,
                            fault |-> "none"]
                      ELSE RestartWithBackoff(next, starts, paused)

\* One call of RestartWithBackoff.
DoRestartWithBackoff ==
    /\ ~restart.called
    /\ \E policy \in Policies, starts \in StartOutcomes :
          restart' = [called |-> TRUE, policy |-> policy, starts |-> starts,
                      result |-> RestartWithBackoff(policy, starts, <<>>)]
    /\ UNCHANGED <<lockFile, instancePid, inst, startAt, startRes>>

NextBackoff ==
    \/ DoRestartWithBackoff /\ UNCHANGED <<storageVars, detectVars, launchVars, crashVars, stepVars, cliVars, daemonVars>>

BackoffInit == IdleStorage /\ IdleDetector /\ IdleLauncher
        /\ IdleTracker /\ IdleSteps /\ IdleCli /\ IdleDaemon /\ IdleStartup

SpecBackoff == BackoffInit /\ [][NextBackoff]_vars

\* The process ids a lock file can name: the two live processes and "old",
\* a process that has exited.
ProcessAlive(pid) == pid \in Procs

\* StartupManager.isProcessRunning(pid): os.FindProcess succeeds on Unix, the
\* answer is whether process.Signal(os.Signal(nil)) returns no error.
isProcessRunning(pid) == ~SignalNilFails(ProcessAlive(pid))

\* EnsureSingleInstance, one system call at a time, by process p; the two
\* processes share respawn.lock and respawn.pid.
\* os.Stat(lockFile).
InstStat(p) ==
    /\ inst[p].pc = "idle"
    /\ inst' = [inst EXCEPT ![p].pc = IF lockFile # "absent" THEN "read"
                                      ELSE "writeLock"]
    /\ UNCHANGED <<lockFile, instancePid>>

\* os.ReadFile(pidFile), strconv.Atoi and isProcessRunning: the error return
\* for a running holder, else on to the removal of the stale lock.
InstRead(p) ==
    /\ inst[p].pc = "read"
    /\ inst' = [inst EXCEPT ![p] =
          IF instancePid # "absent" /\ isProcessRunning(instancePid)
          THEN [pc |-> "done", saw |-> instancePid, ret |-> "already running"]
          ELSE [pc |-> "remove", saw |-> instancePid, ret |-> "none"]]
    /\ UNCHANGED <<lockFile, instancePid>>

\* os.Remove(lockFile); os.Remove(pidFile).
InstRemove(p) ==
    /\ inst[p].pc = "remove"
    /\ lockFile' = "absent"
    /\ instancePid' = "absent"
    /\ inst' = [inst EXCEPT ![p].pc = "writeLock"]

\* os.WriteFile(lockFile, pid).
InstWriteLock(p) ==
    /\ inst[p].pc = "writeLock"
    /\ \E ok \in BOOLEAN :
          IF ok
          THEN /\ lockFile' = p
               /\ inst' = [inst EXCEPT ![p].pc = "writePid"]
          ELSE /\ lockFile' = lockFile
               /\ inst' = [inst EXCEPT ![p].pc = "done",
                                       ![p].ret = "lock file error"]
    /\ UNCHANGED instancePid

\* os.WriteFile(pidFile, pid) and the return.
InstWritePid(p) ==
    /\ inst[p].pc = "writePid"
    /\ \E ok \in BOOLEAN :
          IF ok
          THEN /\ instancePid' = p
               /\ inst' = [inst EXCEPT ![p].pc = "done", ![p].ret = "ok"]
          ELSE /\ instancePid' = instancePid
               /\ inst' = [inst EXCEPT ![p].pc = "done",
                                       ![p].ret = "pid file error"]
    /\ UNCHANGED lockFile

\* One step of EnsureSingleInstance by process p.
EnsureSingleInstance(p) ==
    \/ InstStat(p)
    \/ InstRead(p)
    \/ InstRemove(p)
    \/ InstWriteLock(p)
    \/ InstWritePid(p)

\* Two live processes start on a machine where an earlier process may have
\* left its lock and pid files behind.
InstanceInit ==
    /\ IdleStorage /\ IdleDetector /\ IdleLauncher
    /\ IdleTracker /\ IdleSteps /\ IdleCli /\ IdleDaemon
    /\ restart = NoRestart
    /\ lockFile \in {"absent", "old"}
    /\ instancePid \in {"absent", "old"}
    /\ inst = [p \in Procs |-> [pc |-> "idle", saw |-> "none", ret |-> "none"]]
    /\ startAt = "idle"
    /\ startRes = NoStart

NextInstance ==
    \/ \E p \in Procs : InstStat(p) /\ UNCHANGED <<restart, startAt, startRes, storageVars, detectVars, launchVars, crashVars, stepVars, cliVars, daemonVars>>
    \/ \E p \in Procs : InstRead(p) /\ UNCHANGED <<restart, startAt, startRes, storageVars, detectVars, launchVars, crashVars, stepVars, cliVars, daemonVars>>
    \/ \E p \in Procs : InstRemove(p) /\ UNCHANGED <<restart, startAt, startRes, storageVars, detectVars, launchVars, crashVars, stepVars, cliVars, daemonVars>>
    \/ \E p \in Procs : InstWriteLock(p) /\ UNCHANGED <<restart, startAt, startRes, storageVars, detectVars, launchVars, crashVars, stepVars, cliVars, daemonVars>>
    \/ \E p \in Procs : InstWritePid(p) /\ UNCHANGED <<restart, startAt, startRes, storageVars, detectVars, launchVars, crashVars, stepVars, cliVars, daemonVars>>

SpecInstance == InstanceInit /\ [][NextInstance]_vars

\* initTimeout of StartWithPolicy, seconds.
InitTimeout == 8

\* The process that runs StartWithPolicy.
Self == "p1"

\* The select statement with no timer: it waits for initialize alone.
SelectReady_NoTimer(took) == {"initChan"}

\* The cases of the select statement that are ready first when initialize
\* takes took seconds: the result of initialize before the timer, the timer
\* before the result, both when they come together.
SelectReady(took) ==
    {c \in {"initChan", "time.After"} :
        \/ c = "initChan" /\ took <= InitTimeout
        \/ c = "time.After" /\ took >= InitTimeout}

\* StartWithPolicy up to its first return: "Check crash history".
StartHistory ==
    /\ startAt = "idle"
    /\ DoShouldDisableAutoStart
    /\ IF answer'.value
       THEN /\ startAt' = "done"
            /\ startRes' = [startRes EXCEPT !.called = TRUE,
                                            !.err = "auto-start disabled"]
       ELSE /\ startAt' = "lock"
            /\ startRes' = startRes
    /\ UNCHANGED <<restart, lockFile, instancePid, inst>>

\* "Ensure single instance": the steps of EnsureSingleInstance; its error is
\* returned as it is.
StartLock ==
    /\ startAt = "lock"
    /\ EnsureSingleInstance(Self)
    /\ IF inst'[Self].pc # "done"
       THEN UNCHANGED <<startAt, startRes>>
       ELSE IF inst'[Self].ret = "ok"
            THEN /\ startAt' = "init"
                 /\ startRes' = startRes
            ELSE /\ startAt' = "done"
                 /\ startRes' = [startRes EXCEPT !.called = TRUE,
                                                 !.err = inst'[Self].ret]
    /\ UNCHANGED restart
    /\ UNCHANGED crashVars

\* The select statement: initialize runs in its goroutine and takes took
\* seconds, the timer fires after InitTimeout seconds; the case that is ready
\* first is taken, and either of the two when both are ready at once.  The
\* success return and the timeout return end the call, the error of
\* initialize goes on to recordCrash.
StartSelect ==
    /\ startAt = "init"
    /\ \E took \in 0..MaxInit, initErr \in BOOLEAN :
       \E selected \in SelectReady(took) :
          /\ IF selected = "time.After"
             THEN /\ startAt' = "done"
                  /\ startRes' = [called |-> TRUE, err |-> "initialization timeout",
                                  selected |-> selected, initTook |-> took,
                                  initErr |-> initErr]
             ELSE IF initErr
                  THEN /\ startAt' = "recordCrash"
                       /\ startRes' = [called |-> FALSE, err |-> "none",
                                       selected |-> selected, initTook |-> took,
                                       initErr |-> initErr]
                  ELSE /\ startAt' = "done"
                       /\ startRes' = [called |-> TRUE, err |-> "none",
                                       selected |-> selected, initTook |-> took,
                                       initErr |-> initErr]
    /\ UNCHANGED <<restart, lockFile, instancePid, inst>>
    /\ UNCHANGED crashVars

\* recordCrash, first half: crashTracker.RecordCrash().
StartRecordCrash ==
    /\ startAt = "recordCrash"
    /\ DoRecordCrash
    /\ startAt' = "recheck"
    /\ UNCHANGED <<restart, lockFile, instancePid, inst, startRes>>

\* recordCrash, second half (ShouldDisableAutoStart, whose answer decides on
\* DisableAutoStart), then the return of the error of initialize.
StartReturnErr ==
    /\ startAt = "recheck"
    /\ DoShouldDisableAutoStart
    /\ startAt' = "done"
    /\ startRes' = [startRes EXCEPT !.called = TRUE, !.err = "initialize error"]
    /\ UNCHANGED <<restart, lockFile, instancePid, inst>>

NextStart ==
    \/ StartHistory /\ UNCHANGED <<storageVars, detectVars, launchVars, stepVars, cliVars, daemonVars>>
    \/ StartLock /\ UNCHANGED <<storageVars, detectVars, launchVars, stepVars, cliVars, daemonVars>>
    \/ StartSelect /\ UNCHANGED <<storageVars, detectVars, launchVars, stepVars, cliVars, daemonVars>>
    \/ StartRecordCrash /\ UNCHANGED <<storageVars, detectVars, launchVars, stepVars, cliVars, daemonVars>>
    \/ StartReturnErr /\ UNCHANGED <<storageVars, detectVars, launchVars, stepVars, cliVars, daemonVars>>

SpecStart == InstanceInit /\ [][NextStart]_vars

(***************************************************************************)
(* Claims                                                                  *)
(***************************************************************************)
\* C1: round trip. Loading the identifier of the checkpoint the last
\* successful CreateCheckpoint returned, with no file changed since, succeeds
\* and returns the same ID and the same Processes.
C1_RoundTrip ==
    (loadRes.called /\ fresh # NilCheckpoint /\ loadRes.id = fresh.ID)
        => /\ loadRes.err = "none"
           /\ loadRes.cp.ID = fresh.ID
           /\ loadRes.cp.Processes = fresh.Processes

\* C2: tamper detection. After a successful save, when one byte of the saved
\* data file has been changed, the next LoadCheckpoint of that identifier
\* returns the checksum mismatch error.
C2_TamperDetected ==
    (loadRes.called /\ flipped # NoID /\ loadRes.id = flipped)
        => loadRes.err = "checksum"

HasResult(name) == \E i \in 1..Len(results) : results[i].AppName = name

\* C3: launch ordering. Applications enter launchWithRetry in non-increasing
\* MemoryMB order, results are appended in that order with at most one
\* application in flight, and when an application is launched every heavier
\* application of the list has been skipped or has its result.
C3_LaunchOrder ==
    /\ \A i, j \in 1..Len(started) :
          i < j => started[i].MemoryMB >= started[j].MemoryMB
    /\ Len(results) <= Len(started)
    /\ Len(started) <= Len(results) + 1
    /\ \A i \in 1..Len(results) : results[i].AppName = started[i].Name
    /\ \A k \in 1..Len(started), i \in 1..Len(given) :
          given[i].MemoryMB > started[k].MemoryMB
              => given[i].Name \in skipped \/ HasResult(given[i].Name)

\* A restoration of a list that was not in memory order has launched three
\* applications of two different weights.
C3_Witness ==
    /\ pc = "done"
    /\ given # sorted
    /\ Len(started) = 3
    /\ Len(results) = 3
    /\ started[1].MemoryMB > started[3].MemoryMB

\* C4: skip rule. An application found running when its turn came has no
\* launch attempt, was never handed to launchWithRetry and has no result.
C4_SkipRule ==
    \A a \in skipped :
        /\ \A i \in 1..Len(attemptLog) : attemptLog[i].app # a
        /\ \A i \in 1..Len(started) : started[i].Name # a
        /\ ~HasResult(a)

\* A finished restoration that skipped one application and launched others.
C4_Witness ==
    /\ pc = "done"
    /\ loadRes.err = "none"
    /\ skipped # {}
    /\ Len(results) = Len(given) - Cardinality(skipped)
    /\ Len(results) > 0

AttemptsOf(a) == {i \in 1..Len(attemptLog) : attemptLog[i].app = a}

\* C5: retry accounting. No application gets more than MaxRetryAttempts
\* attempts, no attempt follows a successful one, a successful result counts
\* the attempts made (the last of which succeeded) and a failed result has
\* RetryCount = MaxRetryAttempts after exactly that many failed attempts.
C5_RetryAccounting ==
    /\ \A i \in 1..Len(attemptLog) :
          /\ Cardinality(AttemptsOf(attemptLog[i].app)) <= maxRetries
          /\ attemptLog[i].ok =>
                 \A j \in AttemptsOf(attemptLog[i].app) : j <= i
    /\ \A i \in 1..Len(results) :
          LET r == results[i]
              mine == AttemptsOf(r.AppName)
          IN  IF r.Success
              THEN /\ r.RetryCount = Cardinality(mine)
                   /\ r.RetryCount <= maxRetries
                   /\ \E j \in mine : attemptLog[j].ok
              ELSE /\ r.RetryCount = maxRetries
                   /\ Cardinality(mine) = maxRetries
                   /\ \A j \in mine : ~attemptLog[j].ok

\* MaxRetryAttempts = 3, two failed attempts and a successful third.
C5_Witness ==
    /\ maxRetries = 3
    /\ \E i \in 1..Len(results) :
          /\ results[i].Success
          /\ results[i].RetryCount = 3
          /\ Cardinality({j \in AttemptsOf(results[i].AppName) : ~attemptLog[j].ok}) = 2

\* C6: failed applications never abort a restoration. When the checkpoint
\* loaded, RestoreFromCheckpoint returns no error and every application of
\* the checkpoint that was not found running has exactly one result.
C6_RestoreNeverAborts ==
    (pc = "done" /\ loadRes.err = "none")
        => /\ restoreErr = "none"
           /\ \A i \in 1..Len(given) :
                 given[i].Name \notin skipped
                     => Cardinality({j \in 1..Len(results) :
                                       results[j].AppName = given[i].Name}) = 1

\* A finished restoration in which every one of three applications failed.
C6_Witness ==
    /\ pc = "done"
    /\ loadRes.err = "none"
    /\ Len(results) = 3
    /\ \A i \in 1..Len(results) : ~results[i].Success

\* C7: rule 1. Without a heartbeat file DetectSystemState returns FirstRun.
C7_FirstRun ==
    (detected # "none" /\ hb = "absent") => detected = "FirstRun"

\* FirstRun returned although the uptime query fails and the recorded
\* process is alive.
C7_Witness ==
    /\ detected = "FirstRun"
    /\ hb = "absent"
    /\ ~sysctlOk
    /\ osUptime > 0
    /\ pidAlive

\* C8: rule 3. With a readable heartbeat and the machine up for less than
\* the time since that heartbeat, DetectSystemState returns Restart (stated
\* for the runs in which the uptime query itself succeeds).
C8_RestartWhenRebooted ==
    (detected # "none" /\ sysctlOk /\ hb = "readable" /\ osUptime < gap)
        => detected = "Restart"

\* C9: rule 4. With a readable heartbeat older than two hours and the
\* machine up for longer than that, DetectSystemState returns Sleep (stated
\* for the runs in which the uptime query itself succeeds).
C9_SleepWhenSuspended ==
    (detected # "none" /\ sysctlOk /\ hb = "readable" /\ gap > TwoHours
                       /\ osUptime > gap)
        => detected = "Sleep"

\* C10 as stated: rule 2. With a heartbeat file that cannot be read or
\* parsed DetectSystemState returns Restart, whatever the uptime query does.
C10_UnreadableIsRestart ==
    (detected # "none" /\ hb = "unreadable") => detected = "Restart"

\* C10 amended: with a heartbeat file that cannot be read or parsed,
\* DetectSystemState returns Restart when the uptime query succeeds (for
\* every uptime) and Unknown when the uptime query fails.
C10_UnreadableIsRestartIfUptimeKnown ==
    (detected # "none" /\ hb = "unreadable")
        => detected = (IF sysctlOk THEN "Restart" ELSE "Unknown")

\* Restart returned for an unreadable heartbeat on a machine up for long.
C10_Witness ==
    /\ detected = "Restart"
    /\ hb = "unreadable"
    /\ sysctlOk
    /\ osUptime > TwoHours

\* C11: rules 5 and 6. With a readable heartbeat, a successful uptime query,
\* neither the Restart nor the Sleep rule applying to the machine and neither
\* of the two returned, DetectSystemState returns Crash exactly when the
\* recorded daemon process is not alive and the heartbeat is older than five
\* minutes, and Normal otherwise.
C11_CrashOrNormal ==
    (/\ detected # "none"
     /\ sysctlOk
     /\ hb = "readable"
     /\ ~(osUptime < gap)
     /\ ~(gap > TwoHours /\ osUptime > gap)
     /\ detected \notin {"Restart", "Sleep"})
        => detected = (IF ~pidAlive /\ gap > FiveMinutes THEN "Crash" ELSE "Normal")

\* C12: state-to-handler mapping. When Start has started the loops, the
\* handler of the detected state has run; for FirstRun a checkpoint was
\* created, for Restart a restoration was triggered, and for Sleep, Normal
\* and Unknown the heartbeat was refreshed with no checkpoint and no
\* restoration.
C12_HandlerMapping ==
    loopsStarted
        => /\ handler = handleSystemState(detected)
           /\ detected = "FirstRun" => cpCreated
           /\ detected = "Restart" => restoreTriggered
           /\ detected \in {"Sleep", "Normal", "Unknown"}
                 => hbUpdated /\ ~cpCreated /\ ~restoreTriggered

\* Crashes recorded on this tracker that are newer than t minus the window.
RecentCrashes(t) == {i \in 1..Len(recorded) : recorded[i] > t - windowPeriod}

\* C13: crash threshold. While isDisabled is unset, ShouldDisableAutoStart
\* returns true exactly when at least maxCrashes of the crashes recorded on
\* the tracker are newer than now minus windowPeriod; in particular it
\* returns false after fewer than three RecordCrash calls.
C13_CrashThreshold ==
    (answer.called /\ ~answer.wasDisabled)
        => /\ answer.value = (Cardinality(RecentCrashes(answer.at)) >= maxCrashes)
           /\ Len(recorded) < maxCrashes => ~answer.value

\* False returned after four crashes, of which two have left the window.
C13_Witness ==
    /\ answer.called
    /\ ~answer.wasDisabled
    /\ ~answer.value
    /\ Len(recorded) = 4
    /\ Cardinality(RecentCrashes(answer.at)) = 2

\* C14: sticky disable. Once ShouldDisableAutoStart has returned true, every
\* later call returns true until EnableAutoStart clears the flag.
C14_StickyDisable ==
    (answer.called /\ answer.wasSticky) => answer.value

\* C15: crash history survives a restart. A tracker fresh from Load of the
\* state file holds the crash instants and the disabled flag of the tracker
\* that last saved the file.
C15_HistorySurvives ==
    (loaded /\ lastSaved.valid)
        => /\ crashes = lastSaved.crashes
           /\ isDisabled = lastSaved.isDisabled

\* C16: listing order. The Checkpoints of the list GetAvailableCheckpoints
\* returns are in descending order of timestamp, entries with equal
\* timestamps are in order of identifier, and the directory admits no other
\* list: every order sort.Slice can leave is the one returned.
C16_ListingOrder ==
    (listRes.called /\ listRes.err = "none")
        => LET cps == listRes.Checkpoints
           IN  /\ \A i \in 1..(Len(cps) - 1) :
                      ~TimeBefore(cps[i].Timestamp, cps[i + 1].Timestamp)
               /\ \A i \in 1..(Len(cps) - 1) :
                      cps[i].Timestamp = cps[i + 1].Timestamp
                          => cps[i].ID <= cps[i + 1].ID
               /\ GetAvailableCheckpoints(disk, meta, TRUE) = {listRes}

\* A list of three entries, two of them the original and the compressed file
\* of one checkpoint and so of one timestamp, which the directory holds in
\* another order.
C16_Witness ==
    /\ listRes.called
    /\ listRes.err = "none"
    /\ Len(listRes.Checkpoints) >= 3
    /\ \E i \in 1..(Len(listRes.Checkpoints) - 1) :
          listRes.Checkpoints[i].Timestamp = listRes.Checkpoints[i + 1].Timestamp
    /\ listRes.Checkpoints # LoadAllCheckpoints(disk, meta, TRUE).list

\* C17: retention exactness. CleanOldCheckpoints(cutoff) removes exactly the
\* checkpoint files modified strictly before the cutoff (those whose removal
\* fails excepted), changes no file that stays, removes the metadata of the
\* identifiers it removed, and leaves unchanged the metadata of every
\* identifier that still has a data file.
C17_RetentionExact ==
    (cleanRes.called /\ cleanRes.err = "none")
        => /\ \A n \in DOMAIN cleanRes.disk :
                 n \notin DOMAIN disk
                     <=> (TimeBefore(cleanRes.mtime[n], cleanRes.cutoff)
                          /\ n \notin cleanRes.undeletable)
           /\ \A n \in DOMAIN disk :
                 n \in DOMAIN cleanRes.disk /\ disk[n] = cleanRes.disk[n]
           /\ \A id \in DOMAIN cleanRes.meta :
                 IF \E n \in DOMAIN disk : n.id = id
                 THEN id \in DOMAIN meta /\ meta[id] = cleanRes.meta[id]
                 ELSE id \notin DOMAIN meta

\* C18: compression is idempotent. When CompressCheckpoint is called a
\* second time in succession on a checkpoint CreateCheckpoint saved, no file
\* system call failing, the second call returns no error and leaves the
\* compressed file, the metadata and the fields of the checkpoint as the
\* first call left them.
C18_CompressIdempotent ==
    (compressRes.n >= 2 /\ compressRes.fromSave /\ ~compressRes.faulty)
        => /\ compressRes.err = "none"
           /\ compressRes.snap = compressRes.prevSnap
           /\ compressRes.cp = compressRes.prevCp

\* The identifiers LoadAllCheckpoints can read: the metadata is there, or
\* the full load succeeds.
Readable(id) == id \in DOMAIN meta \/ LoadCheckpoint(disk, meta, id).err = "none"

\* The entries of the last listing that carry the identifier id.
EntriesOf(id) ==
    Cardinality({i \in 1..Len(listRes.Checkpoints) : listRes.Checkpoints[i].ID = id})

\* C19: the listing is resilient. When the directory can be read,
\* LoadAllCheckpoints returns no error whatever its entries are; it returns
\* nothing for an identifier whose metadata read and full load both fail, and
\* one entry for every data file of every other identifier.
C19_ListingResilient ==
    (listRes.called /\ listRes.dirOk)
        => /\ listRes.err = "none"
           /\ \A id \in IDs :
                 EntriesOf(id) = IF Readable(id)
                                 THEN Cardinality({n \in DataFiles(disk) : n.id = id})
                                 ELSE 0

\* A listing that skipped the file of one identifier and returned another.
C19_Witness ==
    /\ listRes.called
    /\ listRes.dirOk
    /\ \E n \in DataFiles(disk) : ~Readable(n.id)
    /\ Len(listRes.Checkpoints) >= 1

\* C20: RestoreLatestCheckpoint. On an empty list it returns an error, loads
\* nothing and launches nothing; on a list with entries it calls
\* RestoreFromCheckpoint with the identifier of the first entry, and no entry
\* of the list has a later timestamp than that one.
C20_RestoreLatest ==
    (pc # "idle" /\ listRes.called /\ listRes.err = "none")
        => IF listRes.Checkpoints = <<>>
           THEN /\ pc = "done"
                /\ restoreErr = "noCheckpoints"
                /\ ~loadRes.called
                /\ started = <<>>
                /\ attemptLog = <<>>
                /\ results = <<>>
           ELSE /\ loadRes.called
                /\ loadRes.id = listRes.Checkpoints[1].ID
                /\ \A i \in 1..Len(listRes.Checkpoints) :
                      ~TimeBefore(listRes.Checkpoints[1].Timestamp,
                                  listRes.Checkpoints[i].Timestamp)

\* A restoration that ran to its end from a list of two checkpoints of which
\* the newer has the smaller identifier.
C20_Witness ==
    /\ pc = "done"
    /\ listRes.called
    /\ Len(listRes.Checkpoints) >= 2
    /\ listRes.Checkpoints[1].ID < listRes.Checkpoints[2].ID
    /\ loadRes.err = "none"
    /\ Len(results) >= 1

\* C21: last-used tracking. A listing made after RestoreFromCheckpoint(id)
\* has loaded the checkpoint and returned carries LastUsed = id, and the
\* timestamp compressOldCheckpoints then measures from is that of the
\* restored checkpoint.
C21_LastUsed ==
    (pc = "done" /\ loadRes.called /\ loadRes.err = "none"
     /\ listRes.called /\ listRes.err = "none")
        => /\ listRes.LastUsed = loadRes.id
           /\ lastUsedTime(listRes) = loadRes.cp.Timestamp

\* C22: maintenance is best-effort. PerformMaintenanceTasks runs the
\* disk-space check, the retention cleanup and the compression pass, in that
\* order and each whatever the ones before it returned, and returns no error.
C22_BestEffort ==
    maintRes.called
        => /\ maintRes.steps = MaintenanceTasks
           /\ Len(maintRes.errs) = Len(MaintenanceTasks)
           /\ maintRes.err = "none"

\* A run whose cleanup failed and whose compression pass still compressed a
\* checkpoint.
C22_Witness ==
    /\ maintRes.called
    /\ maintRes.errs[2] # "none"
    /\ maintRes.errs[3] = "none"
    /\ \E id \in IDs : CompressedName(id) \in DOMAIN disk /\ mtime[CompressedName(id)] # clock

\* C23: identifiers are unique and sortable. A checkpoint CreateCheckpoint
\* saves has the identifier of an earlier checkpoint only when it has its
\* timestamp too, and its identifier is below or above that of every other
\* checkpoint as its timestamp is before or after.
C23_UniqueSortable ==
    (saveRes.called /\ saveRes.err = "none")
        => /\ saveRes.before.meta # <<>>
                 => saveRes.before.meta[1].Timestamp = saveRes.at
           /\ \A id \in DOMAIN meta \ {saveRes.id} :
                 (id < saveRes.id) <=> TimeBefore(meta[id].Timestamp, saveRes.at)

\* C24: identifier collision. When CreateCheckpoint forms the identifier of
\* a checkpoint the directory already holds, the call returns an error and
\* the data file and the metadata of that checkpoint are as they were.
C24_NoSilentOverwrite ==
    (saveRes.called /\ saveRes.before.meta # <<>>)
        => /\ saveRes.err # "none"
           /\ SavedUnder(disk, meta, saveRes.id) = saveRes.before

\* The data file SaveCheckpoint writes for the identifier id is not whole.
Truncated(id) ==
    /\ SaveFileName(id) \in DOMAIN disk
    /\ disk[SaveFileName(id)].damage # "none"

\* The metadata of the identifier of the last SaveCheckpoint is the one
\* written for the data file the call found: it carries the digest of that
\* file.
RefersToFileFound ==
    /\ saveRes.id \in DOMAIN meta
    /\ saveRes.before.file # <<>>
    /\ meta[saveRes.id].Checksum = calculateChecksum(saveRes.before.file[1])

\* C27: save commit protocol. SaveCheckpoint changes the metadata of an
\* identifier only when the data file is completely written, and after a
\* call that failed no metadata refers to a data file of that identifier
\* that the call left truncated.
C27_CommitProtocol ==
    saveRes.called
        => /\ SavedUnder(disk, meta, saveRes.id).meta # saveRes.before.meta
                 => ~Truncated(saveRes.id) /\ SaveFileName(saveRes.id) \in DOMAIN disk
           /\ saveRes.err # "none"
                 => ~(RefersToFileFound /\ Truncated(saveRes.id))

\* The size and compression fields of the checkpoint value cp describe the
\* file cp.FilePath as the directory holds it.
NotStale(cp) ==
    /\ cp.FilePath \in DOMAIN disk
    /\ cp.FileSize = SizeOf(disk[cp.FilePath])
    /\ cp.IsCompressed <=> cp.FilePath = CompressedName(cp.ID)

\* C25: FileSize and IsCompressed are never stale. Every Checkpoint value
\* returned by CreateCheckpoint, LoadCheckpoint or LoadAllCheckpoints, or
\* updated by CompressCheckpoint, has FileSize equal to the size of its file
\* on disk and IsCompressed true exactly when that file is the compressed
\* variant.
C25_NeverStale ==
    /\ createRes.cp # NilCheckpoint => NotStale(createRes.cp)
    /\ (loadRes.called /\ loadRes.err = "none") => NotStale(loadRes.cp)
    /\ (listRes.called /\ listRes.err = "none")
           => \A i \in 1..Len(listRes.Checkpoints) : NotStale(listRes.Checkpoints[i])
    /\ (compressRes.n > 0 /\ compressRes.err = "none") => NotStale(compressRes.cp)

\* C26: metadata always matches the data a reader resolves. Whenever an
\* identifier has metadata and getCheckpointPath resolves a file for it, the
\* metadata checksum is the digest of that file, also between the file system
\* calls of SaveCheckpoint and CompressCheckpoint; a LoadCheckpoint run
\* between them on undamaged files reports neither a checksum mismatch nor an
\* empty file.
C26_MetadataMatches ==
    /\ \A id \in DOMAIN meta :
          getCheckpointPath(disk, id) \in DOMAIN disk
             => meta[id].Checksum = calculateChecksum(disk[getCheckpointPath(disk, id)])
    /\ loadRes.called => loadRes.err \notin {"checksum", "empty"}

\* C28: independent launch verification. A launch attempt yields
\* Success = TRUE only if the open command started and finished without error
\* and the lookup made afterwards found the application; when the command
\* succeeds and the lookup does not find the application the attempt yields
\* Success = FALSE.
C28_IndependentVerification ==
    \A i \in 1..Len(tryLog) :
       LET try == tryLog[i]
       IN  /\ try.result.Success
                => try.startOk /\ try.waitOk /\ try.output = "pid"
           /\ (try.startOk /\ try.waitOk /\ try.output # "pid")
                => ~try.result.Success

\* The open command succeeded for one attempt whose lookup found nothing,
\* and for another whose lookup found the application.
C28_Witness ==
    /\ \E i \in 1..Len(tryLog) :
          /\ tryLog[i].startOk /\ tryLog[i].waitOk
          /\ tryLog[i].output \in {"err", "nothing", "newline"}
          /\ ~tryLog[i].result.Success
    /\ \E i \in 1..Len(tryLog) :
          /\ tryLog[i].output = "pid" /\ tryLog[i].result.Success

\* The names of the failed results of rs, in order.
RECURSIVE FailedNames(_)
FailedNames(rs) ==
    IF rs = <<>> THEN <<>>
    ELSE IF Head(rs).Success THEN FailedNames(Tail(rs))
    ELSE <<Head(rs).AppName>> \o FailedNames(Tail(rs))

\* The results the RestoreApplications run that has just returned produced.
CurrentRun == SubSeq(results, runStart + 1, Len(results))

\* C29: GetLaunchSummary aggregates the results of the current restoration
\* run. After RestoreApplications has returned, successCount + failCount is
\* the number of results that run produced and failedNames are the names of
\* its failed results in order; results of an earlier run on the same launcher
\* are not counted.
C29_SummaryOfCurrentRun ==
    (pc = "done" /\ loadRes.called /\ loadRes.err = "none")
        => LET summary == GetLaunchSummary(results)
           IN  /\ summary.successful + summary.failed = Len(CurrentRun)
               /\ summary.failedApps = FailedNames(CurrentRun)

\* C30: restore command tally. The success and failure counts the restore
\* command prints equal the numbers of successful and failed results of the
\* restoration it has just run, and when every application failed the command
\* still prints the summary and returns without error.
C30_RestoreTally ==
    printed.called
        => /\ printed.err = "none"
                 => /\ printed.successful = GetLaunchSummary(results).successful
                    /\ printed.failed = GetLaunchSummary(results).failed
           /\ (loadRes.err = "none" /\ \A i \in 1..Len(results) : ~results[i].Success)
                 => printed.err = "none"

\* The states DetectSystemState can return on this machine, whose sysctl
\* answers as it does: one for every heartbeat file, time since the heartbeat
\* and state of the pid file.
DetectorOutcomes ==
    {DetectSystemState(h, g, sysctlOk, osUptime, readable, alive) :
        h \in {"absent", "unreadable", "readable"}, g \in 0..MaxTicks,
        readable \in BOOLEAN, alive \in BOOLEAN}

\* C38: every detector outcome is reachable. With the uptime getSystemUptime
\* supplies when sysctl succeeds, each of FirstRun, Restart, Sleep, Crash and
\* Normal is returned by DetectSystemState for at least one combination of
\* heartbeat record, time since the heartbeat and liveness of the previous
\* process.
C38_EveryOutcomeReachable ==
    sysctlOk
        => {"FirstRun", "Restart", "Sleep", "Crash", "Normal"} \subseteq DetectorOutcomes

\* The n most used applications of the usage counts freq, most used first:
\* top names n applications in non-increasing count and no application left
\* out has a larger count than one that is named.
MostUsed(top, freq, n) ==
    /\ Len(top) = n
    /\ \A i \in 1..n : top[i] \in DOMAIN freq
    /\ \A i, j \in 1..n : i < j => top[i] # top[j] /\ freq[top[i]] >= freq[top[j]]
    /\ \A a \in DOMAIN freq \ {top[i] : i \in 1..n} :
          \A i \in 1..n : freq[a] <= freq[top[i]]

\* C40: learning completion terminates. For every AppUsageFrequency map,
\* completeLearning ends without a runtime fault, and once learning is
\* complete TopThreeApps holds the min(3, n) most used applications in
\* non-increasing usage count.
C40_LearningCompletes ==
    /\ monitorFault = "none"
    /\ workPattern.IsLearningComplete
          => LET n == Cardinality(DOMAIN workPattern.AppUsageFrequency)
             IN  MostUsed(workPattern.TopThreeApps, workPattern.AppUsageFrequency,
                          IF n < 3 THEN n ELSE 3)

\* C31: serialized shared state. The loops of one SystemMonitor never mutate
\* the same in-memory state at the same time: at most one loop stands inside
\* the writes of updateLearningData to the work pattern.
C31_Serialized ==
    Cardinality({l \in Loops : loopAt[l] = "updateLearningData"}) <= 1

\* C35: RestartWithBackoff is bounded. For every policy the call ends without
\* a runtime fault, makes at most MaxRetries - CurrentRetry attempts, raises
\* CurrentRetry by one per attempt, returns no error exactly at the first
\* attempt that starts and the max-retries error otherwise, and the pause
\* before the attempt made at retry count i is BackoffIntervals[min(i, len-1)],
\* a valid index of the list.
C35_BoundedBackoff ==
    restart.called =>
        LET p == restart.policy
            r == restart.result
            made == Len(r.slept)
            room == IF p.MaxRetries > p.CurrentRetry
                    THEN p.MaxRetries - p.CurrentRetry ELSE 0
            len == Len(p.BackoffIntervals)
        IN  /\ r.fault = "none"
            /\ made <= room
            /\ r.policy.CurrentRetry = p.CurrentRetry + made
            /\ \A k \in 1..made :
                  LET i == p.CurrentRetry + k - 1
                      at == IF i < len - 1 THEN i ELSE len - 1
                  IN  /\ at \in 0..(len - 1)
                      /\ r.slept[k] = p.BackoffIntervals[at + 1]
            /\ \A k \in 1..(made - 1) : ~restart.starts[k]
            /\ r.err = "none" => made > 0 /\ restart.starts[made]
            /\ r.err = "max retries" =>
                  /\ r.policy.CurrentRetry >= p.MaxRetries
                  /\ made = room
                  /\ \A k \in 1..made : ~restart.starts[k]

\* C39: single instance. In every interleaving of EnsureSingleInstance by two
\* live processes that share the lock and pid files at most one call returns
\* success, and a call that finds the lock file with the pid of a live process
\* returns the error and leaves both files as they were.
C39_SingleInstance ==
    /\ Cardinality({p \in Procs : inst[p].ret = "ok"}) <= 1
    /\ \A p \in Procs :
          (inst[p].saw # "none" /\ inst[p].saw # "absent" /\ ProcessAlive(inst[p].saw))
              => inst[p].pc = "done" /\ inst[p].ret = "already running"

\* C32: StartWithPolicy returns success only if initialize completed without
\* error within the 8-second timeout. An error of initialize is recorded as a
\* crash and returned, a run past the timeout returns the timeout error, a
\* different one, and neither is returned as success.
C32_StartWithinTimeout ==
    startAt = "done" =>
        /\ startRes.called
        /\ startRes.err = "none" =>
              /\ startRes.selected = "initChan"
              /\ ~startRes.initErr
              /\ startRes.initTook <= InitTimeout
              /\ recorded = <<>>
        /\ (startRes.selected = "initChan" /\ startRes.initErr) =>
              /\ startRes.err = "initialize error"
              /\ Len(recorded) = 1
              /\ crashes = recorded
        /\ (startRes.selected # "none" /\ startRes.initTook > InitTimeout) =>
              /\ startRes.err = "initialization timeout"
              /\ recorded = <<>>
        /\ startRes.selected = "time.After" =>
              startRes.err = "initialization timeout"

\* C32: the three ends of the select statement have been met: a start
\* returned as failed by the timeout, after an initialization longer than 8
\* seconds.
C32_Witness ==
    /\ startAt = "done"
    /\ startRes.selected = "time.After"
    /\ startRes.initTook > InitTimeout
    /\ startRes.err = "initialization timeout"

\* The bytes LoadCheckpoint hands to deserializeCheckpoint for the file at
\* path: the file itself, or what the decompression step makes of it.
HandedToDeserialize(path) ==
    IF path.suf = "_compressed.bin"
    THEN DecodeAll(DecodeAll(EmptyBytes, EmptyBytes).data, disk[path])
    ELSE [err |-> "none", data |-> disk[path]]

\* The last LoadCheckpoint was given an identifier without metadata whose
\* data file exists, is not empty and deserializes.
OrphanLoaded ==
    /\ loadRes.called
    /\ loadRes.id \notin DOMAIN meta
    /\ getCheckpointPath(disk, loadRes.id) \in DOMAIN disk
    /\ SizeOf(disk[getCheckpointPath(disk, loadRes.id)]) > 0
    /\ HandedToDeserialize(getCheckpointPath(disk, loadRes.id)).err = "none"
    /\ deserializeCheckpoint(
          HandedToDeserialize(getCheckpointPath(disk, loadRes.id)).data).err = "none"

HasDataFile(d, id) == BinName(id) \in DOMAIN d \/ CompressedName(id) \in DOMAIN d

\* C36: compression never loses a checkpoint. No file system call of
\* CompressCheckpoint leaves an identifier that had a data file without one,
\* and none deletes a compressed file that was on disk, the call made on a
\* checkpoint whose IsCompressed flag is false while its compressed file
\* already exists included.
C36_CompressionKeeps ==
    [][inflight.op = "compress" =>
          \A id \in IDs :
             /\ HasDataFile(disk, id) => HasDataFile(disk', id)
             /\ CompressedName(id) \in DOMAIN disk => CompressedName(id) \in DOMAIN disk']_vars

\* C37: no duplicate listing. The list GetAvailableCheckpoints returns holds
\* at most one entry for each identifier, also when <id>.bin and
\* <id>_compressed.bin both exist, and TotalCount is the number of distinct
\* checkpoints listed.
C37_NoDuplicateListing ==
    (listRes.called /\ listRes.err = "none")
        => /\ \A id \in IDs : EntriesOf(id) <= 1
           /\ listRes.TotalCount =
                 Cardinality({listRes.Checkpoints[i].ID :
                                 i \in 1..Len(listRes.Checkpoints)})

====
